---------------------------- MODULE Spec2Model ----------------------------
(***************************************************************************)
(* A model of the hdfesse name-node client:                                *)
(*   - HaHdfsConnection (libhdfesse/src/ha_rpc.rs) over HdfsConnection     *)
(*     (libhdfesse/src/rpc.rs): specification Spec;                        *)
(*   - the response-group reader of HdfsConnection::call: SpecFrame;       *)
(*   - LsIterator over LsGroupIterator (libhdfesse/src/fs_ls.rs): SpecLs;  *)
(*   - LsIterator over a given vector of groups: SpecFeed;                 *)
(*   - the Hdfs facade (libhdfesse/src/fs.rs): SpecFs;                     *)
(*   - Cached<T> (libhdfesse/src/reader.rs): SpecCache;                    *)
(*   - Path and UriResolver (libhdfesse/src/path.rs): SpecPath.            *)
(* Option<T> is modelled as a sequence of length 0 (None) or 1 (Some).     *)
(***************************************************************************)
EXTENDS Integers, Sequences, FiniteSets, TLC

\* ------------------------------------------------------------------ bounds
MaxEndpoints == 2
MaxCalls == 3
MaxClientIds == 2
MaxRecLen == 2
MaxExtra == 1
MaxFrameCalls == 3
MaxDir == 4
MaxPage == 3
MaxFeedLen == 3
MaxRemaining == 1
MaxBatch == 2
MaxFsRpcs == 4
MaxTime == 3
MaxExpire == 2
MaxRefreshTime == 1
MaxRefresh == 3
MaxSegs == 2
\* SpecSeq: the counter starts at most MaxBefore calls before its largest
\* value, and at most MaxSeqCalls headers are written
MaxBefore == 2
MaxSeqCalls == 3
\* SpecGroup: the largest entry name of the directory
MaxName == 2
\* SpecGroup: the iterator is followed while its count is at most MaxCount
MaxCount == 3
\* SpecConn: at most MaxConnCalls calls are made on the connection
MaxConnCalls == 3
\* SpecStatus: the largest value of a field of the getFsStats response
MaxStat == 1

\* ------------------------------------------------------- program constants
I32Max == 2147483647
PrefixLen == 4

None == <<>>
Some(x) == <<x>>
IsSome(o) == Len(o) = 1
Unwrap(o) == o[1]

\* ------------------------------------------------------------- variables
VARIABLES
    \* HaHdfsConnection fields
    connection_num, connections, current,
    \* the endpoint of the last connection attempt, and the number of
    \* connection attempts made over the manager's life modulo connection_num
    target, attempt_mod,
    \* the last handshake header and the last closing header written
    \* (transport, client id, call id)
    hs_hdr, cl_hdr,
    \* HaHdfsConnection::call / try_connect locals and position
    ha_pc, attempts_left, take_left, last_err, pending, result,
    \* transports (TcpStream) that are open, and the id of the next one
    open, next_tid, calls_made,
    \* history: of the call in progress (started_live .. resps, handshakes,
    \* closes), the last request header built and the previous call's result
    started_live, sent, tried, refused, resps, hdr, prev_result,
    handshakes, closes,
    \* HdfsConnection response reader (SpecFrame)
    fr_call_id, fr_pos, fr_next, fr_len, fr_read, fr_calls, fr_res,
    \* the response header the last call decoded, None if it decoded none
    fr_hdr,
    \* LsGroupIterator / LsIterator (SpecLs)
    dir_n, page_k, prev_name, ls_len, ls_count, gi, ls_current, expected,
    yielded, ls_pc, ls_err, cursors,
    \* LsIterator over a given sequence of groups (SpecFeed)
    fd_groups, fd_feed, fd_it, fd_out, fd_polls, fd_pc,
    \* Hdfs facade (SpecFs): the last operation, its arguments, the answer of
    \* its getFileInfo pre-check, the RPCs it issued, its result, and the
    \* number of RPCs issued on the service so far
    fs_op, fs_args, fs_info, fs_rpcs, fs_res, fs_sent,
    \* Cached<T> (SpecCache): the field value, the clock (Instant::now), the
    \* number of times the refresh function was invoked, and the last get_fn
    \* call
    ca_value, ca_now, ca_refreshes, ca_call, ca_get,
    \* UriResolver (SpecPath): the input as written, whether the URI library
    \* leaves an empty last segment for a path ending in a dot segment, the
    \* Path built from the input, resolve of it, and resolve of that
    pa_raw, pa_trail, pa_path, pa_res1, pa_res2, pa_rp,
    \* Path::join (SpecJoin): the argument more as written, and the result
    pj_more, pj_res,
    \* HdfsConnection.call_id over a long life (SpecSeq): the counter, the
    \* headers written, the results returned, and whether the connection is
    \* "open", "closed" by shutdown or was left by a "panic"
    sq_val, sq_sent, sq_res, sq_state,
    \* LsGroupIterator polled against a name node that may misbehave
    \* (SpecGroup): the name node's answer to each cursor, the iterator's
    \* fields, the start_after of the last getListing and the partial list it
    \* got, the parity of the number of getListing calls, and "run", "done"
    \* (next() gave None), "err" or "capped"
    gr_srv, gr_gs, gr_cursor, gr_last, gr_tick, gr_pc,
    \* one HdfsConnection and its transport (SpecConn): "none" (not built),
    \* "refused", "broken" (dropped while the handshake was written), "open",
    \* "closed" (shutdown) or "gone" (the manager was shut down without one);
    \* its client id and call-id counter, what was written on the transport,
    \* the number of reply prefixes read from it, the number of calls made
    \* and the last result
    cn_pc, cn_client_id, cn_call_id, cn_wire, cn_reads, cn_calls, cn_res,
    \* Hdfs::get_status (SpecStatus): the name node's answer to getFsStats
    \* (None: an RpcError) and what get_status returned
    st_reply, st_res

haVars == <<connection_num, connections, target, attempt_mod, hs_hdr, cl_hdr, current, ha_pc, attempts_left, take_left,
            last_err, pending, result, open, next_tid, calls_made, started_live,
            sent, tried, refused, resps, hdr, prev_result,
            handshakes, closes>>
frVars == <<fr_call_id, fr_pos, fr_next, fr_len, fr_read, fr_calls, fr_res, fr_hdr>>
lsVars == <<dir_n, page_k, prev_name, ls_len, ls_count, gi, ls_current, expected,
            yielded, ls_pc, ls_err, cursors>>
fdVars == <<fd_groups, fd_feed, fd_it, fd_out, fd_polls, fd_pc>>
fsVars == <<fs_op, fs_args, fs_info, fs_rpcs, fs_res, fs_sent>>
caVars == <<ca_value, ca_now, ca_refreshes, ca_call, ca_get>>
paVars == <<pa_raw, pa_trail, pa_path, pa_res1, pa_res2, pa_rp>>
pjVars == <<pj_more, pj_res>>
sqVars == <<sq_val, sq_sent, sq_res, sq_state>>
grVars == <<gr_srv, gr_gs, gr_cursor, gr_last, gr_tick, gr_pc>>
cnVars == <<cn_pc, cn_client_id, cn_call_id, cn_wire, cn_reads, cn_calls, cn_res>>
stVars == <<st_reply, st_res>>
extVars == <<fdVars, fsVars, caVars, paVars, pjVars, sqVars, grVars, cnVars, stVars>>
fdOthers == <<haVars, frVars, lsVars, fsVars, caVars, paVars, pjVars, sqVars, grVars, cnVars, stVars>>
fsOthers == <<haVars, frVars, lsVars, fdVars, caVars, paVars, pjVars, sqVars, grVars, cnVars, stVars>>
caOthers == <<haVars, frVars, lsVars, fdVars, fsVars, paVars, pjVars, sqVars, grVars, cnVars, stVars>>
paOthers == <<haVars, frVars, lsVars, fdVars, fsVars, caVars, pjVars, sqVars, grVars, cnVars, stVars>>
pjOthers == <<haVars, frVars, lsVars, fdVars, fsVars, caVars, sqVars, grVars, cnVars, stVars>>
sqOthers == <<haVars, frVars, lsVars, fdVars, fsVars, caVars, paVars, pjVars, grVars, cnVars, stVars>>
grOthers == <<haVars, frVars, lsVars, fdVars, fsVars, caVars, paVars, pjVars, sqVars, cnVars, stVars>>
cnOthers == <<haVars, frVars, lsVars, fdVars, fsVars, caVars, paVars, pjVars, sqVars, grVars, stVars>>
stOthers == <<haVars, frVars, lsVars, fdVars, fsVars, caVars, paVars, pjVars, sqVars, grVars, cnVars>>
vars == <<haVars, frVars, lsVars, extVars>>

\* ------------------------------------------------ rpc.rs: InfiniteSeq
\* InfiniteSeq::new: val = -1
InfiniteSeq_new_zero == 1 - 1
InfiniteSeq_new == 0 - 1

InfiniteSeq_next_twice(val) == val + 2

\* InfiniteSeq::next: self.val += 1 on an i32 (wrapping in a release build)
InfiniteSeq_next(val) == IF val = I32Max THEN 0 - I32Max - 1 ELSE val + 1

\* ------------------------------------------------ rpc.rs: responses
StandbyException == "org.apache.hadoop.ipc.StandbyException"
SnapshotExceptionDots == "org.apache.hadoop.hdfs.protocol.SnapshotException"
SnapshotExceptionSlashes == "org/apache/hadoop/hdfs/protocol/SnapshotException"
FileNotFoundException == "java.io.FileNotFoundException"

\* Exception class names a server may put in a response header.
ExceptionClasses ==
    {StandbyException, SnapshotExceptionDots, SnapshotExceptionSlashes,
     FileNotFoundException}

\* RpcErrorCodeProto values: ERROR_APPLICATION and one of the others.
ErrorDetails == {"ERROR_APPLICATION", "ERROR_NO_SUCH_METHOD"}

\* ERROR_CLASS_MAP: the keys of the compile-time map
ERROR_CLASS_MAP == {SnapshotExceptionSlashes}

\* A decoded RpcResponseHeaderProto (status, exceptionClassName, errorDetail).
Headers ==
    {[status |-> "SUCCESS", exception |-> "", detail |-> "ERROR_APPLICATION"]}
    \cup {h \in [status : {"ERROR"}, exception : ExceptionClasses, detail : ErrorDetails] :
            h.exception # StandbyException => h.detail = "ERROR_APPLICATION"}
    \cup {[status |-> "FATAL", exception |-> "java.lang.OutOfMemoryError",
           detail |-> "ERROR_NO_SUCH_METHOD"]}

Garbled == [status |-> "GARBLED", exception |-> "", detail |-> ""]

\* What the server side of one call exchange delivers: a response group with a
\* header record (decodable or not) and a message record (decodable "ok", absent
\* "none", or undecodable "garbled"), or a stream that fails ("io").
Responses ==
    [io : {FALSE}, hdr : {h \in Headers : h.status = "SUCCESS"},
     msg : {"ok", "none", "garbled"}]
    \cup [io : {FALSE}, hdr : {h \in Headers : h.status # "SUCCESS"} \cup {Garbled},
          msg : {"none"}]
    \cup {[io |-> TRUE, hdr |-> Garbled, msg |-> "none"]}

\* RpcError variants and Ok, as records of one shape.
Res(kind, exception, detail) == [kind |-> kind, exception |-> exception, detail |-> detail]
ResOk == Res("Ok", "", "")
ResIo == Res("Io", "", "")
ResProtobuf == Res("Protobuf", "", "")
ResConnector == Res("Connector", "", "")

\* HdfsConnection::call, from the write of the request to the returned value:
\* `?` on the write, on read_exact and on read_message, then the status match.
CallResult(r) ==
    IF r.io THEN ResIo
    ELSE IF r.hdr.status = "GARBLED" THEN ResProtobuf
    ELSE IF r.hdr.status = "SUCCESS"
         THEN IF r.msg = "ok" THEN ResOk ELSE ResProtobuf
    ELSE IF r.hdr.status = "ERROR"
         THEN IF r.hdr.exception \in ERROR_CLASS_MAP
              THEN Res("KnownError", r.hdr.exception, r.hdr.detail)
              ELSE Res("ErrorResponse", r.hdr.exception, r.hdr.detail)
    ELSE Res("FatalResponse", r.hdr.exception, r.hdr.detail)

\* ------------------------------------------------ ha_rpc.rs
ShouldFailover_anyError(res) ==
    res.kind \in {"ErrorResponse", "KnownError", "FatalResponse"}

\* HaHdfsConnection::call, the `if let Err(RpcError::ErrorResponse {..})` match
\* and the class-name comparison
ShouldFailover(res) ==
    /\ res.kind = "ErrorResponse"
    /\ res.detail = "ERROR_APPLICATION"
    /\ res.exception = StandbyException

\* Cycle<IntoIter<String>>::next over n addresses: the item and the new position
CycleItem(pos, n) == pos
CycleAdvance_stay(pos, n) == pos
CycleAdvance(pos, n) == (pos + 1) % n

haGhostInit ==
    /\ started_live = FALSE /\ sent = 0 /\ tried = 0 /\ refused = 0
    /\ resps = <<>>
    /\ hdr = None /\ prev_result = None
    /\ handshakes = 0 /\ closes = 0
    /\ target = None /\ attempt_mod = 0
    /\ hs_hdr = None /\ cl_hdr = None

\* HaHdfsConnection::new
HaNew(n) ==
    /\ connection_num = n
    /\ connections = 0
    /\ current = None
    /\ ha_pc = "idle"
    /\ attempts_left = 0 /\ take_left = 0 /\ last_err = None /\ pending = None
    /\ result = None
    /\ open = {} /\ next_tid = 0 /\ calls_made = 0
    /\ haGhostInit

haIdle == HaNew(0)

\* HaHdfsConnection::call, entry: attempts_left = self.connection_num
CallStart ==
    /\ ha_pc = "idle"
    /\ calls_made < MaxCalls
    /\ calls_made' = calls_made + 1
    /\ attempts_left' = connection_num
    /\ ha_pc' = "loop"
    /\ result' = None
    /\ prev_result' = result
    /\ started_live' = IsSome(current)
    /\ sent' = 0 /\ tried' = 0 /\ refused' = 0 /\ resps' = <<>>
    /\ handshakes' = 0 /\ closes' = 0
    /\ UNCHANGED <<connection_num, connections, target, attempt_mod, hs_hdr, cl_hdr, current, take_left, last_err, pending,
                   open, next_tid, hdr>>
    /\ UNCHANGED <<frVars, lsVars, extVars>>

EnsureConnection_reconnect ==
    /\ ha_pc = "loop"
    /\ IF IsSome(current) /\ sent > 0
       THEN /\ ha_pc' = "forward"
            /\ UNCHANGED <<take_left, last_err>>
       ELSE /\ ha_pc' = "connecting"
            /\ take_left' = attempts_left
            /\ last_err' = None
    /\ UNCHANGED <<connection_num, connections, target, attempt_mod, hs_hdr, cl_hdr, current, attempts_left, pending, result,
                   open, next_tid, calls_made, started_live, sent, tried, refused,
                   resps, hdr, prev_result, handshakes, closes>>
    /\ UNCHANGED <<frVars, lsVars, extVars>>

\* ensure_connection: the live connection, or the start of try_connect
\* (last_err = None; the Take adaptor captures *attempts_left)
EnsureConnection ==
    /\ ha_pc = "loop"
    /\ IF IsSome(current)
       THEN /\ ha_pc' = "forward"
            /\ UNCHANGED <<take_left, last_err>>
       ELSE /\ ha_pc' = "connecting"
            /\ take_left' = attempts_left
            /\ last_err' = None
    /\ UNCHANGED <<connection_num, connections, target, attempt_mod, hs_hdr, cl_hdr, current, attempts_left, pending, result,
                   open, next_tid, calls_made, started_live, sent, tried, refused,
                   resps, hdr, prev_result, handshakes, closes>>
    /\ UNCHANGED <<frVars, lsVars, extVars>>

\* try_connect, one iteration of the for loop up to connector.get_connection:
\* the next address of the cycle, *attempts_left -= 1, and the TCP connect,
\* which is refused (RpcError::Connector) or gives a stream.
TryConnectNext ==
    /\ ha_pc = "connecting"
    /\ take_left > 0
    /\ connection_num > 0
    /\ take_left' = take_left - 1
    /\ attempts_left' = attempts_left - 1
    /\ connections' = CycleAdvance(connections, connection_num)
    /\ target' = Some(CycleItem(connections, connection_num))
    /\ attempt_mod' = (attempt_mod + 1) % connection_num
    /\ tried' = tried + 1
    /\ \/ /\ last_err' = Some(ResConnector)
          /\ refused' = refused + 1
          /\ UNCHANGED <<pending, open, next_tid, ha_pc>>
       \/ /\ \E u \in 1..MaxClientIds :
                pending' = Some([tid |-> next_tid,
                                 ep |-> CycleItem(connections, connection_num),
                                 call_id |-> InfiniteSeq_new,
                                 client_id |-> u])
          /\ open' = open \cup {next_tid}
          /\ next_tid' = next_tid + 1
          /\ ha_pc' = "handshake"
          /\ UNCHANGED <<last_err, refused>>
    /\ UNCHANGED <<connection_num, current, result, calls_made, started_live, sent,
                   resps, hdr, prev_result, handshakes, closes, hs_hdr, cl_hdr>>
    /\ UNCHANGED <<frVars, lsVars, extVars>>

\* HdfsConnection::init_connection: the handshake is written and the connection
\* becomes current, or a write fails, the stream is dropped and the loop goes on.
InitConnection ==
    /\ ha_pc = "handshake"
    /\ \/ /\ current' = pending
          /\ handshakes' = handshakes + 1
          /\ hs_hdr' = Some([tid |-> Unwrap(pending).tid,
                             client_id |-> Unwrap(pending).client_id,
                             call_id |-> 0 - 3])
          /\ ha_pc' = "forward"
          /\ UNCHANGED <<open, last_err>>
       \/ /\ open' = open \ {Unwrap(pending).tid}
          /\ last_err' = Some(ResIo)
          /\ ha_pc' = "connecting"
          /\ UNCHANGED <<current, handshakes, hs_hdr>>
    /\ pending' = None
    /\ UNCHANGED <<connection_num, connections, target, attempt_mod, cl_hdr, attempts_left, take_left, result,
                   next_tid, calls_made, started_live, sent, tried, refused, resps,
                   hdr, prev_result, closes>>
    /\ UNCHANGED <<frVars, lsVars, extVars>>

TryConnectExhausted_anyTime ==
    /\ ha_pc = "connecting"
    /\ IF IsSome(last_err)
       THEN /\ result' = last_err
            /\ ha_pc' = "idle"
       ELSE /\ ha_pc' = "panicked"
            /\ UNCHANGED result
    /\ UNCHANGED <<connection_num, connections, target, attempt_mod, hs_hdr, cl_hdr, current, attempts_left, take_left,
                   last_err, pending, open, next_tid, calls_made, started_live, sent,
                   tried, refused, resps, hdr, prev_result,
                   handshakes, closes>>
    /\ UNCHANGED <<frVars, lsVars, extVars>>

\* try_connect after the loop: Err(last_err.unwrap()), which `?` returns from
\* call; unwrap of None panics.
TryConnectExhausted ==
    /\ ha_pc = "connecting"
    /\ take_left = 0 \/ connection_num = 0
    /\ IF IsSome(last_err)
       THEN /\ result' = last_err
            /\ ha_pc' = "idle"
       ELSE /\ ha_pc' = "panicked"
            /\ UNCHANGED result
    /\ UNCHANGED <<connection_num, connections, target, attempt_mod, hs_hdr, cl_hdr, current, attempts_left, take_left,
                   last_err, pending, open, next_tid, calls_made, started_live, sent,
                   tried, refused, resps, hdr, prev_result,
                   handshakes, closes>>
    /\ UNCHANGED <<frVars, lsVars, extVars>>

\* conn.call(...) on the live connection and the match on its result:
\* fail() and continue on a standby error, return res otherwise.
Forward ==
    /\ ha_pc = "forward"
    /\ \E r \in Responses :
        LET conn == Unwrap(current)
            id == InfiniteSeq_next(conn.call_id)
            res == CallResult(r)
        IN  /\ current' = Some([conn EXCEPT !.call_id = id])
            /\ hdr' = Some([tid |-> conn.tid, ep |-> conn.ep, call_id |-> id,
                            client_id |-> conn.client_id,
                            nth |-> IF IsSome(hdr) /\ Unwrap(hdr).tid = conn.tid
                                    THEN Unwrap(hdr).nth + 1 ELSE 0])
            /\ sent' = sent + 1
            /\ resps' = Append(resps, res)
            /\ IF ShouldFailover(res)
               THEN /\ ha_pc' = "fail"
                    /\ UNCHANGED result
               ELSE /\ ha_pc' = "idle"
                    /\ result' = Some(res)
    /\ UNCHANGED <<connection_num, connections, target, attempt_mod, hs_hdr, cl_hdr, attempts_left, take_left, last_err,
                   pending, open, next_tid, calls_made, started_live, tried, refused,
                   prev_result, handshakes, closes>>
    /\ UNCHANGED <<frVars, lsVars, extVars>>

Fail_noTake ==
    /\ ha_pc = "fail"
    /\ closes' = closes + 1
    /\ cl_hdr' = Some([tid |-> Unwrap(current).tid,
                       client_id |-> Unwrap(current).client_id,
                       call_id |-> InfiniteSeq_next(Unwrap(current).call_id)])
    /\ open' = open \ {Unwrap(current).tid}
    /\ ha_pc' = "loop"
    /\ UNCHANGED <<connection_num, connections, target, attempt_mod, hs_hdr, current, attempts_left, take_left,
                   last_err, pending, result, next_tid, calls_made, started_live, sent,
                   tried, refused, resps, hdr, prev_result, handshakes>>
    /\ UNCHANGED <<frVars, lsVars, extVars>>

Fail_leak ==
    /\ ha_pc = "fail"
    /\ current' = None
    /\ ha_pc' = "loop"
    /\ UNCHANGED <<connection_num, connections, target, attempt_mod, hs_hdr, cl_hdr, attempts_left, take_left, last_err,
                   pending, result, open, next_tid, calls_made, started_live, sent,
                   tried, refused, resps, hdr, prev_result,
                   handshakes, closes>>
    /\ UNCHANGED <<frVars, lsVars, extVars>>

\* fail(): self.current.take().map(|c| c.shutdown()): the close header is
\* written with the next call-id (its result is dropped) and the stream is
\* dropped with the connection.
Fail ==
    /\ ha_pc = "fail"
    /\ current' = None
    /\ closes' = closes + 1
    /\ cl_hdr' = Some([tid |-> Unwrap(current).tid,
                       client_id |-> Unwrap(current).client_id,
                       call_id |-> InfiniteSeq_next(Unwrap(current).call_id)])
    /\ open' = open \ {Unwrap(current).tid}
    /\ ha_pc' = "loop"
    /\ UNCHANGED <<connection_num, connections, target, attempt_mod, hs_hdr, attempts_left, take_left, last_err,
                   pending, result, next_tid, calls_made, started_live, sent, tried,
                   refused, resps, hdr, prev_result,
                   handshakes>>
    /\ UNCHANGED <<frVars, lsVars, extVars>>


HaInit == \E n \in 0..MaxEndpoints : HaNew(n)

\* ------------------------------------------- rpc.rs: reading a response group
\* A response group on the wire: the decoded view (hdr, msg) and the sizes of
\* its parts: the length-delimited header record (hlen), the message record
\* (mlen, 0 when absent) and bytes after them (extra).  A group whose status is
\* SUCCESS and that has no message record has nothing after the header.
FrameGroups ==
    {g \in [io : {FALSE}, hdr : Headers \cup {Garbled}, msg : {"ok", "none", "garbled"},
            hlen : 1..MaxRecLen, mlen : 0..MaxRecLen, extra : 0..MaxExtra] :
        /\ (g.msg = "none") = (g.mlen = 0)
        /\ g.hdr.status # "SUCCESS" => g.msg = "none"
        /\ (g.hdr.status = "SUCCESS" /\ g.msg = "none") => g.extra = 0}

\* The 32-bit prefix of the group.
GroupLen(g) == g.hlen + g.mlen + g.extra

\* The numbers of bytes of the frame the decoder may have asked for when
\* HdfsConnection::call returns: read_message of the header, and of the message
\* when the status is SUCCESS; a record that fails to decode fails at one of its
\* bytes.
Needed(g) ==
    IF g.hdr.status = "GARBLED" THEN 1..g.hlen
    ELSE IF g.hdr.status = "SUCCESS"
         THEN IF g.msg = "ok" THEN {g.hlen + g.mlen}
              ELSE IF g.msg = "garbled" THEN (g.hlen + 1)..(g.hlen + g.mlen)
              ELSE {g.hlen}
    ELSE {g.hlen}

\* The numbers of bytes of the frame that may have left the stream when
\* HdfsConnection::call returns.  The CodedInputStream reads the Take adaptor
\* through a buffer: each fill takes what the socket has, at most up to the
\* frame's end, and nothing reads the rest of the frame once the records are
\* decoded or a record has failed.
FrameConsumed(g) == UNION {d..GroupLen(g) : d \in Needed(g)}

FrameInit ==
    /\ fr_call_id = InfiniteSeq_new
    /\ fr_pos = 0 /\ fr_next = 0 /\ fr_len = 0 /\ fr_read = 0 /\ fr_calls = 0
    /\ fr_res = None /\ fr_hdr = None

\* HdfsConnection::call on one connection, reading the group p that starts at
\* the reader's position.  fr_pos: bytes of the response stream consumed so
\* far; fr_next: the offset at which the group just read ends, where the prefix
\* of the next group starts.
FrameCall ==
    /\ fr_calls < MaxFrameCalls
    /\ fr_calls' = fr_calls + 1
    /\ fr_call_id' = InfiniteSeq_next(fr_call_id)
    /\ \E p \in FrameGroups :
        /\ \E c \in FrameConsumed(p) :
            /\ fr_len' = PrefixLen + GroupLen(p)
            /\ fr_read' = PrefixLen + c
            /\ fr_pos' = fr_pos + PrefixLen + c
        /\ fr_next' = fr_pos + PrefixLen + GroupLen(p)
        /\ fr_res' = Some(CallResult(p))
        /\ fr_hdr' = IF p.hdr.status = "GARBLED" THEN None ELSE Some(p.hdr)
    /\ UNCHANGED <<haVars, lsVars, extVars>>

\* HdfsConnection::call when the write of the request or read_exact of the
\* prefix fails: no group is read.
FrameCallIo ==
    /\ fr_calls < MaxFrameCalls
    /\ fr_calls' = fr_calls + 1
    /\ fr_call_id' = InfiniteSeq_next(fr_call_id)
    /\ fr_len' = 0 /\ fr_read' = 0
    /\ fr_res' = Some(ResIo) /\ fr_hdr' = None
    /\ UNCHANGED <<fr_pos, fr_next, haVars, lsVars, extVars>>

FrameNext == FrameCall \/ FrameCallIo


\* ------------------------------------------------ fs_ls.rs
\* Entries of the listed directory are named 1..dir_n in name order; the empty
\* byte string (the default cursor) is 0 and sorts before every name.
Min(a, b) == IF a < b THEN a ELSE b

Range(a, b) == [i \in 1..(IF b >= a THEN b - a + 1 ELSE 0) |-> a + i - 1]

Last(q) == q[Len(q)]

\* The name node's getListing(src, start_after) on a directory of n entries
\* that does not change, answering in pages of at most k: the partial listing
\* after the cursor and the number of entries remaining after it.
GetListing(n, k, start_after) ==
    LET hi == Min(start_after + k, n)
    IN  [partial |-> Range(start_after + 1, hi), remaining |-> n - hi]

NextCursor_first(partial) ==
    IF Len(partial) = 0 THEN None ELSE Some(partial[1])

\* next_group: self.prev_name = partial_list.last().map(..)
NextCursor(partial) ==
    IF Len(partial) = 0 THEN None ELSE Some(Last(partial))

\* next_group: self.prev_name.take().unwrap_or_default()
ListFrom(pn) == IF IsSome(pn) THEN Unwrap(pn) ELSE 0

\* LsGroupIterator::next_group on the state gs = [prev_name, len, count];
\* fails = TRUE when the getListing call returns an RpcError (the `?`).
\* Gives the new state and the item.
next_group_on(gs, fails, listing) ==
    LET list_from == ListFrom(gs.prev_name)
        partial_list == listing.partial
        count == gs.count + Len(partial_list)
        remaining_len == listing.remaining
    IN  IF fails
        THEN [gs |-> [gs EXCEPT !.prev_name = None],
              item |-> [none |-> FALSE, ok |-> FALSE, expected |-> 0, data |-> <<>>],
              cursor |-> Some(list_from)]
        ELSE [gs |-> [prev_name |-> NextCursor(partial_list),
                      len |-> Some(count + remaining_len),
                      count |-> count],
              item |-> [none |-> FALSE, ok |-> TRUE,
                        expected |-> remaining_len + Len(partial_list),
                        data |-> partial_list],
              cursor |-> Some(list_from)]

\* next_group against the name node of a directory that does not change
next_group(gs, fails) ==
    next_group_on(gs, fails, GetListing(dir_n, page_k, ListFrom(gs.prev_name)))

\* LsGroupIterator::next, listing being the name node's answer if asked
GroupNext_on(gs, fails, listing) ==
    IF IsSome(gs.len) /\ gs.count >= Unwrap(gs.len)
    THEN [gs |-> gs,
          item |-> [none |-> TRUE, ok |-> TRUE, expected |-> 0, data |-> <<>>],
          cursor |-> None]
    ELSE next_group_on(gs, fails, listing)

\* LsGroupIterator::next
GroupNext(gs, fails) ==
    GroupNext_on(gs, fails, GetListing(dir_n, page_k, ListFrom(gs.prev_name)))

\* LsIterator::ensure_new_data on it = [gi, current, expected], where gi is
\* TRUE for Some(group iterator) and current is [ok, data] (Ok(items left) or
\* Err).  gs is the group iterator's state and g what its next() gives when
\* polled: [gs, item, cursor].  Gives the new states of both iterators and the
\* cursor of the poll, None if the group iterator was not polled.
ensure_new_data_with(it, gs, g) ==
    LET should_fetch == it.current.ok /\ Len(it.current.data) = 0
    IN  IF ~it.gi \/ ~should_fetch
        THEN [it |-> it, gs |-> gs, cursor |-> None]
        ELSE IF it.expected = 0
        THEN [it |-> [it EXCEPT !.gi = FALSE], gs |-> gs, cursor |-> None]
        ELSE IF g.item.none
        THEN [it |-> [it EXCEPT !.gi = FALSE], gs |-> g.gs, cursor |-> g.cursor]
        ELSE IF g.item.ok
        THEN [it |-> [gi |-> TRUE, current |-> [ok |-> TRUE, data |-> g.item.data],
                      expected |-> g.item.expected],
              gs |-> g.gs, cursor |-> g.cursor]
        ELSE [it |-> [gi |-> TRUE, current |-> [ok |-> FALSE, data |-> <<>>],
                      expected |-> 1],
              gs |-> g.gs, cursor |-> g.cursor]

\* ensure_new_data of LsIterator<LsGroupIterator>
ensure_new_data(it, gs, fails) == ensure_new_data_with(it, gs, GroupNext(gs, fails))

\* LsIterator::next after ensure_new_data gave e, without self.gi.take().
NextAfter_noTake(e) ==
    IF ~e.it.gi
    THEN [it |-> e.it, gs |-> e.gs, cursor |-> e.cursor, out |-> <<>>]
    ELSE IF e.it.current.ok
    THEN IF Len(e.it.current.data) = 0
         THEN [it |-> e.it, gs |-> e.gs, cursor |-> e.cursor, out |-> <<>>]
         ELSE [it |-> [e.it EXCEPT !.current.data = Tail(@)],
               gs |-> e.gs, cursor |-> e.cursor,
               out |-> <<Head(e.it.current.data)>>]
    ELSE [it |-> [e.it EXCEPT !.current = [ok |-> TRUE, data |-> <<>>]],
          gs |-> e.gs, cursor |-> e.cursor, out |-> <<0 - 1>>]

\* LsIterator::next after self.ensure_new_data() gave e: the new states, the
\* cursor of the poll made (if any) and what is returned: <<>> for None,
\* <<x>> for Some(Ok(x)), <<-1>> for Some(Err(_)).
NextAfter(e) ==
    IF ~e.it.gi
    THEN [it |-> e.it, gs |-> e.gs, cursor |-> e.cursor, out |-> <<>>]
    ELSE IF e.it.current.ok
    THEN IF Len(e.it.current.data) = 0
         THEN [it |-> e.it, gs |-> e.gs, cursor |-> e.cursor, out |-> <<>>]
         ELSE [it |-> [e.it EXCEPT !.current.data = Tail(@)],
               gs |-> e.gs, cursor |-> e.cursor,
               out |-> <<Head(e.it.current.data)>>]
    ELSE [it |-> [e.it EXCEPT !.current = [ok |-> TRUE, data |-> <<>>],
                              !.gi = FALSE],
          gs |-> e.gs, cursor |-> e.cursor, out |-> <<0 - 1>>]

\* LsIterator::next of LsIterator<LsGroupIterator>
LsIterator_next(it, gs, fails) == NextAfter(ensure_new_data(it, gs, fails))

size_hint_currentOnly(it) ==
    LET remain_len == IF it.gi /\ it.current.ok THEN Len(it.current.data) ELSE 0
    IN  <<IF remain_len = 0 THEN 0 ELSE remain_len - 1, remain_len>>

\* LsIterator::size_hint
size_hint(it) ==
    LET remain_len == IF it.gi
                      THEN it.expected + (IF it.current.ok THEN Len(it.current.data) ELSE 0)
                      ELSE 0
    IN  <<IF remain_len = 0 THEN 0 ELSE remain_len - 1, remain_len>>

LsIt == [gi |-> gi, current |-> ls_current, expected |-> expected]
LsGs == [prev_name |-> prev_name, len |-> ls_len, count |-> ls_count]

LsSet(e) ==
    /\ gi' = e.it.gi
    /\ ls_current' = e.it.current
    /\ expected' = e.it.expected
    /\ prev_name' = e.gs.prev_name
    /\ ls_len' = e.gs.len
    /\ ls_count' = e.gs.count
    /\ cursors' = cursors \o e.cursor

\* Before Hdfs::list_status builds the iterator: LsGroupIterator::new's fields
\* and the fields LsIterator::new starts from.
LsStart(n, k) ==
    /\ dir_n = n /\ page_k = k
    /\ prev_name = None /\ ls_len = None /\ ls_count = 0
    /\ gi = TRUE /\ ls_current = [ok |-> TRUE, data |-> <<>>] /\ expected = 1
    /\ yielded = <<>> /\ ls_pc = "new" /\ ls_err = FALSE /\ cursors = <<>>

LsInit == \E n \in 0..MaxDir, k \in 1..MaxPage : LsStart(n, k)

\* LsIterator::new: it.ensure_new_data()
LsNew ==
    /\ ls_pc = "new"
    /\ \E fails \in BOOLEAN :
        LET e == ensure_new_data(LsIt, LsGs, fails)
        IN  /\ LsSet(e)
            /\ ls_err' = (ls_err \/ (IsSome(e.cursor) /\ fails))
    /\ ls_pc' = "iter"
    /\ UNCHANGED <<dir_n, page_k, yielded, haVars, frVars, extVars>>

\* LsIterator::next
LsIterNext ==
    /\ ls_pc \in {"iter", "done"}
    /\ \E fails \in BOOLEAN :
        LET r == LsIterator_next(LsIt, LsGs, fails)
        IN  /\ LsSet(r)
            /\ ls_err' = (ls_err \/ (IsSome(r.cursor) /\ fails))
            /\ yielded' = yielded \o r.out
            /\ ls_pc' = IF r.out = <<>> THEN "done" ELSE "iter"
    /\ UNCHANGED <<dir_n, page_k, haVars, frVars, extVars>>

LsNext == LsNew \/ LsIterNext

\* ------------------------------------------------ fs_ls.rs: LsIterator over
\* a vector of groups, as in the module's tests.  A group is Err(_) or
\* Ok((expected, batch)); the batch of length l holds the items 1..l.
ErrGroup == [none |-> FALSE, ok |-> FALSE, expected |-> 0, data |-> <<>>]

FeedGroups ==
    {ErrGroup} \cup
    {[none |-> FALSE, ok |-> TRUE, expected |-> e, data |-> Range(1, l)] :
        e \in 0..MaxRemaining, l \in 0..MaxBatch}

FeedSeqs == UNION {[1..n -> FeedGroups] : n \in 0..MaxFeedLen}

\* std::vec::IntoIter::next on the groups left; the cursor marks the poll.
VecNext(feed) ==
    IF Len(feed) = 0
    THEN [gs |-> feed,
          item |-> [none |-> TRUE, ok |-> TRUE, expected |-> 0, data |-> <<>>],
          cursor |-> Some(0)]
    ELSE [gs |-> Tail(feed), item |-> Head(feed), cursor |-> Some(0)]

FeedStart(groups) ==
    /\ fd_groups = groups /\ fd_feed = groups
    /\ fd_it = [gi |-> TRUE, current |-> [ok |-> TRUE, data |-> <<>>], expected |-> 1]
    /\ fd_out = <<>> /\ fd_polls = 0 /\ fd_pc = "new"

FeedInit == \E groups \in FeedSeqs : FeedStart(groups)

\* LsIterator::new(gi.into_iter())
FdNew ==
    /\ fd_pc = "new"
    /\ LET e == ensure_new_data_with(fd_it, fd_feed, VecNext(fd_feed))
       IN  /\ fd_it' = e.it
           /\ fd_feed' = e.gs
           /\ fd_polls' = fd_polls + Len(e.cursor)
    /\ fd_pc' = "iter"
    /\ UNCHANGED <<fd_groups, fd_out, fdOthers>>

\* LsIterator::next
FdIterNext ==
    /\ fd_pc \in {"iter", "done"}
    /\ LET r == NextAfter(ensure_new_data_with(fd_it, fd_feed, VecNext(fd_feed)))
       IN  /\ fd_it' = r.it
           /\ fd_feed' = r.gs
           /\ fd_polls' = fd_polls + Len(r.cursor)
           /\ fd_out' = fd_out \o r.out
           /\ fd_pc' = IF r.out = <<>> THEN "done" ELSE "iter"
    /\ UNCHANGED <<fd_groups, fdOthers>>

FdNext == FdNew \/ FdIterNext

\* ------------------------------------------------ fs.rs: Hdfs facade
\* Paths given to the facade: "bad" is a path whose resolution fails with a
\* PathError, the others resolve.
FsPaths == {"bad", "a", "b"}

\* Answers to the getFileInfo call: an RpcError, Ok(None), or Ok(Some(status))
\* with the status' fileType.
InfoReplies == {"rpc_err", "absent", "IS_FILE", "IS_DIR", "IS_SYMLINK"}

\* Answers to a mkdirs / delete / rename / getListing call.
RpcReplies == {"rpc_err", "true", "false"}

\* Result<_, FsError>
FsErr(source) == [ok |-> FALSE, source |-> source, val |-> "none"]
FsOk(val) == [ok |-> TRUE, source |-> "none", val |-> val]

\* Result<_, HdfsError>
HdfsOk(val) == [ok |-> TRUE, kind |-> "none", source |-> "none", val |-> val]
HdfsErr(kind, source) == [ok |-> FALSE, kind |-> kind, source |-> source, val |-> "none"]

\* HdfsError::src / dst / op
HdfsError_src(source) == HdfsErr("Src", source)
HdfsError_dst_asSrc(source) == HdfsErr("Src", source)
HdfsError_dst(source) == HdfsErr("Dst", source)
HdfsError_op(source) == HdfsErr("Op", source)

\* UriResolver::resolve_path as the facade sees it: Ok(path) or Err(PathError)
resolve_path(p) == IF p = "bad" THEN FsErr("Path") ELSE FsOk(p)

\* Hdfs::get_file_info: the result and the RPCs issued
get_file_info(p, info) ==
    IF ~resolve_path(p).ok
    THEN [res |-> FsErr("Path"), rpcs |-> <<>>]
    ELSE IF info = "rpc_err"
    THEN [res |-> FsErr("Rpc"), rpcs |-> <<"getFileInfo">>]
    ELSE IF info = "absent"
    THEN [res |-> FsErr("NotFound"), rpcs |-> <<"getFileInfo">>]
    ELSE [res |-> FsOk(info), rpcs |-> <<"getFileInfo">>]

ensure_dir_any(file_info, kind) == HdfsOk("unit")

ensure_dir(file_info, kind) ==
    IF file_info = "IS_DIR" THEN HdfsOk("unit") ELSE HdfsErr(kind, "NotDir")

ensure_not_dir_any(file_info, kind) == HdfsOk("unit")

ensure_not_dir(file_info, kind) ==
    IF file_info # "IS_DIR" THEN HdfsOk("unit") ELSE HdfsErr(kind, "IsDir")

ensure_not_exists_any(file_info_result, kind) ==
    IF file_info_result.ok \/ file_info_result.source = "NotFound"
    THEN HdfsOk("unit")
    ELSE HdfsErr(kind, file_info_result.source)

ensure_not_exists(file_info_result, kind) ==
    IF file_info_result.ok THEN HdfsErr(kind, "FileExists")
    ELSE IF file_info_result.source = "NotFound" THEN HdfsOk("unit")
    ELSE HdfsErr(kind, file_info_result.source)

\* What an operation gives: its result, the RPCs it issued in order, and the
\* answer its getFileInfo call got (None if it made none).
FsOut(res, rpcs) ==
    [res |-> res, rpcs |-> rpcs,
     info |-> None]

FsOutInfo(res, rpcs, info) ==
    [res |-> res, rpcs |-> rpcs,
     info |-> IF Len(rpcs) > 0 /\ rpcs[1] = "getFileInfo" THEN Some(info) ELSE None]

\* Hdfs::mkdirs
mkdirs(src, create_parent, info, reply) ==
    LET fi == get_file_info(src, info)
        chk == ensure_not_exists(fi.res, "Src")
        pre == IF create_parent THEN <<>> ELSE fi.rpcs
    IN  IF ~resolve_path(src).ok
        THEN FsOut(HdfsError_src("Path"), <<>>)
        ELSE IF ~create_parent /\ ~chk.ok
        THEN FsOutInfo(chk, pre, info)
        ELSE FsOutInfo(IF reply = "rpc_err" THEN HdfsError_op("Rpc") ELSE HdfsOk(reply),
                       pre \o <<"mkdirs">>, info)

\* Hdfs::delete
delete(path, recursive, info, reply) ==
    LET fi == get_file_info(path, info)
        pre == IF recursive THEN <<>> ELSE fi.rpcs
    IN  IF ~resolve_path(path).ok
        THEN FsOut(HdfsError_src("Path"), <<>>)
        ELSE IF ~recursive /\ ~fi.res.ok
        THEN FsOutInfo(HdfsError_src(fi.res.source), pre, info)
        ELSE IF ~recursive /\ ~ensure_not_dir(fi.res.val, "Src").ok
        THEN FsOutInfo(ensure_not_dir(fi.res.val, "Src"), pre, info)
        ELSE FsOutInfo(IF reply = "rpc_err" THEN HdfsError_src("Rpc") ELSE HdfsOk(reply),
                       pre \o <<"delete">>, info)

\* Hdfs::list_status; LsIterator::new issues the first getListing call.
list_status(src, info) ==
    LET fi == get_file_info(src, info)
    IN  IF ~resolve_path(src).ok
        THEN FsOut(HdfsError_src("Path"), <<>>)
        ELSE IF ~fi.res.ok
        THEN FsOutInfo(HdfsError_src(fi.res.source), fi.rpcs, info)
        ELSE IF ~ensure_dir(fi.res.val, "Src").ok
        THEN FsOutInfo(ensure_dir(fi.res.val, "Src"), fi.rpcs, info)
        ELSE FsOutInfo(HdfsOk("iterator"), fi.rpcs \o <<"getListing">>, info)

\* Hdfs::rename
rename(src, dst, reply) ==
    IF ~resolve_path(src).ok
    THEN FsOut(HdfsError_src("Path"), <<>>)
    ELSE IF ~resolve_path(dst).ok
    THEN FsOut(HdfsError_dst("Path"), <<>>)
    ELSE FsOut(IF reply = "rpc_err" THEN HdfsError_op("Rpc") ELSE HdfsOk("unit"),
               <<"rename">>)

NoArgs == [src |-> "none", dst |-> "none", flag |-> FALSE]

\* Hdfs::new
FsInit ==
    /\ fs_op = "none" /\ fs_args = NoArgs /\ fs_info = None
    /\ fs_rpcs = <<>> /\ fs_res = HdfsOk("unit") /\ fs_sent = 0

\* The operation returns: what it issued and gave is recorded.
FsDone(op, args, out) ==
    /\ fs_op' = op
    /\ fs_args' = args
    /\ fs_info' = out.info
    /\ fs_rpcs' = out.rpcs
    /\ fs_res' = out.res
    /\ fs_sent' = fs_sent + Len(out.rpcs)
    /\ UNCHANGED fsOthers

FsMkdirs ==
    \E src \in FsPaths, create_parent \in BOOLEAN,
       info \in InfoReplies, reply \in RpcReplies :
        LET out == mkdirs(src, create_parent, info, reply)
        IN  /\ fs_sent + Len(out.rpcs) <= MaxFsRpcs
            /\ FsDone("mkdirs", [src |-> src, dst |-> "none", flag |-> create_parent], out)

FsDelete ==
    \E path \in FsPaths, recursive \in BOOLEAN,
       info \in InfoReplies, reply \in RpcReplies :
        LET out == delete(path, recursive, info, reply)
        IN  /\ fs_sent + Len(out.rpcs) <= MaxFsRpcs
            /\ FsDone("delete", [src |-> path, dst |-> "none", flag |-> recursive], out)

FsListStatus ==
    \E src \in FsPaths, info \in InfoReplies :
        LET out == list_status(src, info)
        IN  /\ fs_sent + Len(out.rpcs) <= MaxFsRpcs
            /\ FsDone("list_status", [src |-> src, dst |-> "none", flag |-> FALSE], out)

FsRename ==
    \E src \in FsPaths, dst \in FsPaths, reply \in RpcReplies :
        LET out == rename(src, dst, reply)
        IN  /\ fs_sent + Len(out.rpcs) <= MaxFsRpcs
            /\ FsDone("rename", [src |-> src, dst |-> dst, flag |-> FALSE], out)

FsNext == FsMkdirs \/ FsDelete \/ FsListStatus \/ FsRename

\* ------------------------------------------------ reader.rs: Cached<T>
\* value is None or Some([val, deadline]); instants are ticks of a clock.
IsFresh_inverted(value, now) == IsSome(value) /\ Unwrap(value).deadline <= now

\* check_expiration's test: value.map(|(_, deadline)| deadline > now).unwrap_or(false)
IsFresh(value, now) == IsSome(value) /\ Unwrap(value).deadline > now

\* Cached::check_expiration: the field value afterwards
check_expiration(value, now) == IF IsFresh(value, now) THEN value ELSE None

AfterUpdate_keepOld(old, cleared, ok, new) == IF ok THEN Some(new) ELSE old

\* get_fn past the early return: the field value after update_fn returned.
\* `?` leaves it as check_expiration left it (cleared); Ok stores the new
\* value.
AfterUpdate(old, cleared, ok, new) == IF ok THEN Some(new) ELSE cleared

\* Cached::get: value.and_then(|(t, inst)| if inst <= now { Some(t) } else { None })
get(value, now) ==
    IF IsSome(value) /\ Unwrap(value).deadline <= now
    THEN Some(Unwrap(value).val)
    ELSE None

\* Cached::set: the field value afterwards
set(val, now, expire_in) == Some([val |-> val, deadline |-> now + expire_in])

\* Cached::new
CacheInit ==
    /\ ca_value = None /\ ca_now = 0 /\ ca_refreshes = 0 /\ ca_call = None
    /\ ca_get = None

\* Time passes between calls.
CaTick ==
    /\ ca_now < MaxTime
    /\ ca_now' = ca_now + 1
    /\ UNCHANGED <<ca_value, ca_refreshes, ca_call, ca_get, caOthers>>

\* Cached::get_fn(expire_in, update_fn) with a stored value that is fresh
CaGetFnHit ==
    /\ IsSome(check_expiration(ca_value, ca_now))
    /\ \E expire_in \in 0..MaxExpire :
        ca_call' = Some([pre |-> ca_value, t1 |-> ca_now, t2 |-> ca_now,
                         expire_in |-> expire_in, invoked |-> 0, ok |-> TRUE,
                         ret |-> Some(Unwrap(ca_value).val)])
    /\ ca_value' = check_expiration(ca_value, ca_now)
    /\ UNCHANGED <<ca_now, ca_refreshes, ca_get, caOthers>>

\* Cached::get_fn(expire_in, update_fn) with no value or an expired one:
\* update_fn runs for dt ticks and gives Ok(the k-th value) or Err; the
\* deadline is taken from the clock read after it returned.
CaGetFnMiss ==
    /\ ~IsSome(check_expiration(ca_value, ca_now))
    /\ ca_refreshes < MaxRefresh
    /\ \E expire_in \in 0..MaxExpire, ok \in BOOLEAN, dt \in 0..MaxRefreshTime :
        /\ ca_now + dt <= MaxTime
        /\ ca_now' = ca_now + dt
        /\ ca_refreshes' = ca_refreshes + 1
        /\ ca_value' = AfterUpdate(ca_value, check_expiration(ca_value, ca_now), ok,
                                   [val |-> ca_refreshes + 1,
                                    deadline |-> ca_now + dt + expire_in])
        /\ ca_call' = Some([pre |-> ca_value, t1 |-> ca_now, t2 |-> ca_now + dt,
                            expire_in |-> expire_in, invoked |-> 1, ok |-> ok,
                            ret |-> IF ok THEN Some(ca_refreshes + 1) ELSE None])
    /\ UNCHANGED <<ca_get, caOthers>>

\* Cached::get(): the field is left as it is; ca_get keeps what the call saw
\* and returned.
CaGet ==
    /\ ca_get' = Some([pre |-> ca_value, now |-> ca_now, ret |-> get(ca_value, ca_now)])
    /\ UNCHANGED <<ca_value, ca_now, ca_refreshes, ca_call, caOthers>>

\* Cached::set(val, expire_in) with a value that came from no refresh (0);
\* ca_call is the last get_fn only while nothing else has stored a value.
CaSet ==
    /\ \E expire_in \in 0..MaxExpire : ca_value' = set(0, ca_now, expire_in)
    /\ ca_call' = None
    /\ UNCHANGED <<ca_now, ca_refreshes, ca_get, caOthers>>

CaNext == CaTick \/ CaGetFnHit \/ CaGetFnMiss \/ CaGet \/ CaSet

\* ------------------------------------------------ path.rs: Path, UriResolver
\* A URI reference is [scheme, auth, absolute, segs]: scheme is None or
\* Some(name), auth is None or Some([user, password, host]), and the path is
\* its absolute flag with its segments (always at least one, as in
\* uriparse::Path; the empty path is the single empty segment).
Ref(scheme, auth, absolute, segs) ==
    [scheme |-> scheme, auth |-> auth, absolute |-> absolute, segs |-> segs]

Auth(user, password, host, port) ==
    [user |-> user, password |-> password, host |-> host, port |-> port]

RECURSIVE DotFold(_, _, _)
\* Removal of dot segments from segs onto acc: "." is dropped; ".." is kept
\* when keep and nothing but ".." precedes it, and otherwise removes the
\* segment before it, if there is one.
DotFold(segs, acc, keep) ==
    IF Len(segs) = 0 THEN acc
    ELSE LET seg == Head(segs)
         IN  IF seg = "." THEN DotFold(Tail(segs), acc, keep)
             ELSE IF seg = ".."
             THEN IF keep /\ (Len(acc) = 0 \/ Last(acc) = "..")
                  THEN DotFold(Tail(segs), Append(acc, seg), keep)
                  ELSE DotFold(Tail(segs),
                               IF Len(acc) = 0 THEN acc ELSE SubSeq(acc, 1, Len(acc) - 1),
                               keep)
             ELSE DotFold(Tail(segs), Append(acc, seg), keep)

Normalize_none(segs, absolute, as_reference, trail) == segs

\* uriparse::Path::normalize(as_reference) on the segments of a path.  trail
\* is the library's treatment of a path that ends in a removed dot segment:
\* TRUE when it leaves an empty last segment ("/a/b/.." gives "/a/"), FALSE
\* when it does not ("/a").
Normalize(segs, absolute, as_reference, trail) ==
    LET keep == as_reference /\ ~absolute
        out == DotFold(segs, <<>>, keep)
        dotEnd == /\ Len(segs) > 0
                  /\ \/ Last(segs) = "."
                     \/ (Last(segs) = ".." /\ ~(Len(out) > 0 /\ Last(out) = ".."))
    IN  IF Len(out) = 0 THEN <<"">>
        ELSE IF trail /\ dotEnd /\ Last(out) # "" THEN Append(out, "")
        ELSE out

\* uriparse::Path::push: the segment is appended; if the path is just one
\* empty segment, a non-empty segment replaces it.
Push(segs, absolute, seg) ==
    IF Len(segs) = 1 /\ segs[1] = "" /\ seg # "" THEN <<seg>> ELSE Append(segs, seg)

RECURSIVE PushAll(_, _, _)
PushAll(segs, absolute, more) ==
    IF Len(more) = 0 THEN segs
    ELSE PushAll(Push(segs, absolute, Head(more)), absolute, Tail(more))

NonEmpty(segs) == SelectSeq(segs, LAMBDA seg : seg # "")

\* drop_empty_segments
drop_empty_segments(segs, absolute, trail) ==
    LET n == Normalize(segs, absolute, TRUE, trail)
    IN  IF Len(n) > 1 /\ (\E i \in 1..Len(n) : n[i] = "")
        THEN (IF Len(NonEmpty(n)) = 0 THEN <<"">> ELSE NonEmpty(n))
        ELSE n

\* Path::new / hdfs_path_to_uri on an input given by its parts: the path is
\* cleaned by drop_empty_segments, a path after an authority is absolute, and
\* uriref.normalize() removes the dot segments left (all of them when there
\* is a scheme).
Path_new(raw, trail) ==
    LET absolute == raw.absolute \/ IsSome(raw.auth)
        segs == drop_empty_segments(raw.segs, raw.absolute /\ ~IsSome(raw.auth), trail)
    IN  Ref(raw.scheme, raw.auth, absolute,
            Normalize(segs, absolute, ~IsSome(raw.scheme), trail))

\* UriResolver::new("myhost", "myself", None, None).default_uri
default_uri ==
    Ref(Some("hdfs"), Some(Auth(Some("myself"), None, "myhost", None)), TRUE,
        <<"user", "myself">>)

SetPath_push(res, absolute, segs) ==
    [res EXCEPT !.absolute = TRUE, !.segs = PushAll(res.segs, TRUE, segs)]

\* URIReference::set_path: with an authority the path is made absolute.
SetPath(res, absolute, segs) ==
    [res EXCEPT !.absolute = absolute \/ IsSome(res.auth), !.segs = segs]

\* URIReference::is_relative_path_reference / is_absolute_path_reference
is_relative_path_reference(uri) ==
    ~IsSome(uri.scheme) /\ ~IsSome(uri.auth) /\ ~uri.absolute
is_absolute_path_reference(uri) ==
    ~IsSome(uri.scheme) /\ ~IsSome(uri.auth) /\ uri.absolute

\* The authority of the third branch of resolve: a missing user name is
\* taken from the default URI, and so are the host and port when the host is
\* empty.
FillAuth_keep(auth) == auth

FillAuth(auth) ==
    [auth EXCEPT
        !.user = IF IsSome(@) THEN @ ELSE Unwrap(default_uri.auth).user,
        !.host = IF @ = "" THEN Unwrap(default_uri.auth).host ELSE @,
        !.port = IF auth.host = "" THEN Unwrap(default_uri.auth).port ELSE @]

\* UriResolver::resolve
resolve(uri, trail) ==
    IF is_relative_path_reference(uri)
    THEN LET res_path == Normalize(PushAll(default_uri.segs, default_uri.absolute, uri.segs),
                                   default_uri.absolute, FALSE, trail)
         IN  SetPath(default_uri, default_uri.absolute, res_path)
    ELSE IF is_absolute_path_reference(uri)
    THEN SetPath(default_uri, uri.absolute, uri.segs)
    ELSE LET res1 == IF IsSome(uri.scheme)
                     THEN [default_uri EXCEPT !.scheme = uri.scheme]
                     ELSE default_uri
             res2 == IF IsSome(uri.auth)
                     THEN [res1 EXCEPT !.auth = Some(FillAuth(Unwrap(uri.auth)))]
                     ELSE res1
         IN  SetPath(res2, uri.absolute, uri.segs)

\* UriResolver::resolve_path: a relative reference is resolved onto the
\* default path and built as a reference holding only that path; any other
\* input is returned as it is.
UriResolver_resolve_path(uri, trail) ==
    IF is_relative_path_reference(uri)
    THEN LET res_path == Normalize(PushAll(default_uri.segs, default_uri.absolute, uri.segs),
                                   default_uri.absolute, FALSE, trail)
         IN  Ref(None, None, default_uri.absolute, res_path)
    ELSE uri

\* Path::to_path_string, as the path it spells: the empty path is ".".
to_path_string(uri) ==
    IF ~uri.absolute /\ uri.segs = <<"">>
    THEN [absolute |-> FALSE, segs |-> <<".">>]
    ELSE [absolute |-> uri.absolute, segs |-> uri.segs]

\* Inputs: segments as written between slashes.
RawSegment == {"test", ".", "..", ""}
RawSegs == UNION {[1..n -> RawSegment] : n \in 0..MaxSegs}
RawAuth ==
    {Auth(u, pw, h, pt) : u \in {None, Some("test")}, pw \in {None, Some("pass")},
                          h \in {"", "host"}, pt \in {None, Some("8020")}}
RawInputs ==
    {Ref(sc, None, ab, IF Len(segs) = 0 THEN <<"">> ELSE segs) :
        sc \in {None, Some("hdfs"), Some("http")}, ab \in BOOLEAN, segs \in RawSegs}
    \cup
    {Ref(sc, Some(au), TRUE, IF Len(segs) = 0 THEN <<"">> ELSE segs) :
        sc \in {None, Some("hdfs"), Some("http")}, au \in RawAuth, segs \in RawSegs}

PathStart(raw, trail) ==
    /\ pa_raw = raw /\ pa_trail = trail
    /\ pa_path = None /\ pa_res1 = None /\ pa_res2 = None /\ pa_rp = None

PathInit == \E raw \in RawInputs, trail \in BOOLEAN : PathStart(raw, trail)

\* Path::new(input)
PaNew ==
    /\ pa_path = None
    /\ pa_path' = Some(Path_new(pa_raw, pa_trail))
    /\ UNCHANGED <<pa_raw, pa_trail, pa_res1, pa_res2, pa_rp, paOthers>>

\* resolver.resolve(&path)
PaResolve ==
    /\ IsSome(pa_path) /\ pa_res1 = None
    /\ pa_res1' = Some(resolve(Unwrap(pa_path), pa_trail))
    /\ UNCHANGED <<pa_raw, pa_trail, pa_path, pa_res2, pa_rp, paOthers>>

\* resolver.resolve(&resolved)
PaResolveAgain ==
    /\ IsSome(pa_res1) /\ pa_res2 = None
    /\ pa_res2' = Some(resolve(Unwrap(pa_res1), pa_trail))
    /\ UNCHANGED <<pa_raw, pa_trail, pa_path, pa_res1, pa_rp, paOthers>>

\* resolver.resolve_path(&path)
PaResolvePath ==
    /\ IsSome(pa_path) /\ pa_rp = None
    /\ pa_rp' = Some(UriResolver_resolve_path(Unwrap(pa_path), pa_trail))
    /\ UNCHANGED <<pa_raw, pa_trail, pa_path, pa_res1, pa_res2, paOthers>>

PaNext == PaNew \/ PaResolve \/ PaResolveAgain \/ PaResolvePath

\* ------------------------------------------------ path.rs: Path::join
\* The argument more of join is a string; it is given by its parts like the
\* input of Path::new.  The empty string is the relative empty path.
IsEmptyStr(raw) ==
    ~IsSome(raw.scheme) /\ ~IsSome(raw.auth) /\ ~raw.absolute /\ raw.segs = <<"">>

\* Path::join
join(base, more, trail) ==
    IF IsEmptyStr(more)
    THEN base
    ELSE LET more_uri == Path_new(more, trail)
             path == Normalize(PushAll(base.segs, base.absolute, more_uri.segs),
                               base.absolute, TRUE, trail)
         IN  [base EXCEPT !.segs = path]

\* Bases: relative, absolute-path and full-URI inputs of Path::new.
JoinBases ==
    {Ref(None, None, ab, IF Len(segs) = 0 THEN <<"">> ELSE segs) :
        ab \in BOOLEAN, segs \in RawSegs}
    \cup
    {Ref(Some("hdfs"), Some(Auth(Some("test"), None, "host", None)), TRUE,
         IF Len(segs) = 0 THEN <<"">> ELSE segs) : segs \in RawSegs}

JoinMores ==
    {Ref(None, None, ab, IF Len(segs) = 0 THEN <<"">> ELSE segs) :
        ab \in BOOLEAN, segs \in RawSegs}

JoinStart(base, trail, more) ==
    /\ PathStart(base, trail)
    /\ pj_more = more /\ pj_res = None

JoinInit ==
    \E base \in JoinBases, trail \in BOOLEAN, more \in JoinMores :
        JoinStart(base, trail, more)

\* base.join(more)
PjJoin ==
    /\ IsSome(pa_path) /\ pj_res = None
    /\ pj_res' = Some(join(Unwrap(pa_path), pj_more, pa_trail))
    /\ UNCHANGED <<pj_more, paVars, pjOthers>>

JoinNext == PaNew \/ PjJoin

\* ------------------------------------------------ rpc.rs: call ids
\* self.val += 1 at the largest i32: a build with overflow checks panics and
\* leaves val as it was, a build without them wraps.
InfiniteSeq_overflows(val) == val = I32Max

\* A connection just made (val = -1) or one that has made 2^31 - 1 - d calls.
SeqInit ==
    /\ sq_val \in {InfiniteSeq_new} \cup {I32Max - d : d \in 0..MaxBefore}
    /\ sq_sent = <<>> /\ sq_res = <<>> /\ sq_state = "open"

SeqHeader(op, call_id) == [op |-> op, callId |-> call_id]

\* HdfsConnection::call: the header takes the next call id; the call returns
\* with any of its results.
SeqCall ==
    /\ sq_state = "open" /\ Len(sq_sent) < MaxSeqCalls
    /\ sq_val' = InfiniteSeq_next(sq_val)
    /\ sq_sent' = Append(sq_sent, SeqHeader("RPC_FINAL_PACKET", sq_val'))
    /\ \E r \in {ResOk, ResIo, ResProtobuf} : sq_res' = Append(sq_res, r)
    /\ UNCHANGED <<sq_state, sqOthers>>

\* HdfsConnection::shutdown: its header takes the next call id too, and the
\* connection is consumed.
SeqShutdown ==
    /\ sq_state = "open" /\ Len(sq_sent) < MaxSeqCalls
    /\ sq_val' = InfiniteSeq_next(sq_val)
    /\ sq_sent' = Append(sq_sent, SeqHeader("RPC_CLOSE_CONNECTION", sq_val'))
    /\ sq_state' = "closed"
    /\ UNCHANGED <<sq_res, sqOthers>>

\* call or shutdown in a build with overflow checks: the addition panics
\* before any header is made.
SeqPanic ==
    /\ sq_state = "open" /\ InfiniteSeq_overflows(sq_val)
    /\ sq_state' = "panic"
    /\ UNCHANGED <<sq_val, sq_sent, sq_res, sqOthers>>

SeqNext == SeqCall \/ SeqShutdown \/ SeqPanic

\* ------------------------------------------------ fs_ls.rs: LsGroupIterator alone
\* Name nodes that answer each cursor always the same way, with entries after
\* the cursor in name order, and any remainingEntries: among them those that
\* send an empty partial list with remainingEntries > 0.
Servers ==
    [0..MaxName -> [partial : {<<>>}, remaining : 0..MaxRemaining]]
    \cup
    {srv \in [0..MaxName -> [partial : {Range(a, b) : a \in 1..MaxName, b \in 0..MaxName},
                             remaining : 0..MaxRemaining]] :
        \A c \in 0..MaxName :
            Len(srv[c].partial) > 0 => srv[c].partial[1] = c + 1}

\* LsGroupIterator::new
GroupNew == [prev_name |-> None, len |-> None, count |-> 0]

GroupInit ==
    /\ gr_srv \in Servers
    /\ gr_gs = GroupNew
    /\ gr_cursor = None /\ gr_last = <<>> /\ gr_tick = FALSE
    /\ gr_pc = "run"

\* next() of the group iterator where getListing is issued and answered.
GrPoll ==
    /\ gr_pc = "run"
    /\ LET g == GroupNext_on(gr_gs, FALSE, gr_srv[ListFrom(gr_gs.prev_name)])
       IN  /\ ~g.item.none
           /\ g.gs.count <= MaxCount
           /\ gr_gs' = g.gs
           /\ gr_cursor' = g.cursor
           /\ gr_last' = g.item.data
           /\ gr_tick' = ~gr_tick
    /\ UNCHANGED <<gr_srv, gr_pc, grOthers>>

\* The same step where the count passes MaxCount: the iterator is followed no
\* further.
GrPollCapped ==
    /\ gr_pc = "run"
    /\ LET g == GroupNext_on(gr_gs, FALSE, gr_srv[ListFrom(gr_gs.prev_name)])
       IN  ~g.item.none /\ g.gs.count > MaxCount
    /\ gr_pc' = "capped"
    /\ UNCHANGED <<gr_srv, gr_gs, gr_cursor, gr_last, gr_tick, grOthers>>

\* next() where getListing returns an RpcError; the consumer stops.
GrPollErr ==
    /\ gr_pc = "run"
    /\ LET g == GroupNext_on(gr_gs, TRUE, gr_srv[ListFrom(gr_gs.prev_name)])
       IN  /\ ~g.item.none
           /\ gr_gs' = g.gs
           /\ gr_cursor' = g.cursor
           /\ gr_tick' = ~gr_tick
    /\ gr_pc' = "err"
    /\ UNCHANGED <<gr_srv, gr_last, grOthers>>

\* next() gives None.
GrEnd ==
    /\ gr_pc = "run"
    /\ GroupNext_on(gr_gs, FALSE, gr_srv[ListFrom(gr_gs.prev_name)]).item.none
    /\ gr_pc' = "done"
    /\ UNCHANGED <<gr_srv, gr_gs, gr_cursor, gr_last, gr_tick, grOthers>>

GroupNextStep == GrPoll \/ GrPollCapped \/ GrPollErr \/ GrEnd

\* ------------------------------------------------ rpc.rs: what one connection writes
RPC_HEADER == "hrpc"
RPC_VERSION == 9
RPC_HDFS_PROTOCOL == "org.apache.hadoop.hdfs.protocol.ClientProtocol"

\* The records of a group, as records of one shape.
Record(type, op, callId, retryCount, clientId, text) ==
    [type |-> type, op |-> op, callId |-> callId, retryCount |-> retryCount,
     clientId |-> clientId, text |-> text]

\* RpcRequestHeaderProto as init_connection, call and shutdown fill it
RpcRequestHeader(op, callId, clientId) ==
    Record("RpcRequestHeaderProto", op, callId, 0 - 1, clientId, "")
\* IpcConnectionContextProto (protocol)
ConnectionContext == Record("IpcConnectionContextProto", "", 0, 0, 0, RPC_HDFS_PROTOCOL)
\* RequestHeaderProto (methodName)
RequestHeader(method) == Record("RequestHeaderProto", "", 0, 0, 0, method)
\* the input message of a call
InputMessage == Record("input", "", 0, 0, 0, "")

\* What is written on the transport, as items of one shape: the seven bytes
\* before the first group, a group (send_message_group, flushed whole), or
\* the part of either that was written when a write failed.
WireItem(kind, magic, version, service, auth, records) ==
    [kind |-> kind, magic |-> magic, version |-> version, service |-> service,
     auth |-> auth, records |-> records]
Preamble == WireItem("preamble", RPC_HEADER, RPC_VERSION, 80, 0, <<>>)
Group(records) == WireItem("group", "", 0, 0, 0, records)
Torn == WireItem("torn", "", 0, 0, 0, <<>>)

HandshakeGroup_noContext(clientId) ==
    Group(<<RpcRequestHeader("RPC_FINAL_PACKET", 0 - 3, clientId)>>)

\* init_connection: the group of the handshake
HandshakeGroup(clientId) ==
    Group(<<RpcRequestHeader("RPC_FINAL_PACKET", 0 - 3, clientId), ConnectionContext>>)

\* call: the group of the request
CallGroup(callId, clientId, method) ==
    Group(<<RpcRequestHeader("RPC_FINAL_PACKET", callId, clientId),
            RequestHeader(method), InputMessage>>)

ShutdownGroup_asCall(callId, clientId) ==
    Group(<<RpcRequestHeader("RPC_FINAL_PACKET", callId, clientId)>>)

\* shutdown: the group of the closing packet
ShutdownGroup(callId, clientId) ==
    Group(<<RpcRequestHeader("RPC_CLOSE_CONNECTION", callId, clientId)>>)

Methods == {"getListing", "mkdirs"}

ConnInit ==
    /\ cn_pc = "none" /\ cn_client_id = 0 /\ cn_call_id = InfiniteSeq_new
    /\ cn_wire = <<>> /\ cn_reads = 0 /\ cn_calls = 0 /\ cn_res = None

\* HdfsConnection::new: connect, then init_connection writes the handshake;
\* a refused connect or a failed write returns the error and the connection
\* is not built.
CnNew ==
    /\ cn_pc = "none"
    /\ \E u \in 1..MaxClientIds :
        \/ /\ cn_pc' = "refused" /\ cn_res' = Some(ResConnector)
           /\ UNCHANGED <<cn_client_id, cn_wire>>
        \/ /\ cn_pc' = "broken" /\ cn_res' = Some(ResIo)
           /\ cn_client_id' = u
           /\ cn_wire' \in {<<Torn>>, <<Preamble, Torn>>}
        \/ /\ cn_pc' = "open" /\ cn_res' = Some(ResOk)
           /\ cn_client_id' = u
           /\ cn_wire' = <<Preamble, HandshakeGroup(u)>>
    /\ UNCHANGED <<cn_call_id, cn_reads, cn_calls, cnOthers>>

\* HdfsConnection::call: the request group is written and the reply read.
CnCall ==
    /\ cn_pc = "open" /\ cn_calls < MaxConnCalls
    /\ cn_calls' = cn_calls + 1
    /\ cn_call_id' = InfiniteSeq_next(cn_call_id)
    /\ \E method \in Methods :
        cn_wire' = Append(cn_wire, CallGroup(cn_call_id', cn_client_id, method))
    /\ cn_reads' = cn_reads + 1
    /\ \E r \in {ResOk, ResIo, ResProtobuf} : cn_res' = Some(r)
    /\ UNCHANGED <<cn_pc, cn_client_id, cnOthers>>

\* HdfsConnection::call where the write of the request fails: `?` returns
\* before anything is read.
CnCallTorn ==
    /\ cn_pc = "open" /\ cn_calls < MaxConnCalls
    /\ cn_calls' = cn_calls + 1
    /\ cn_call_id' = InfiniteSeq_next(cn_call_id)
    /\ cn_wire' = Append(cn_wire, Torn)
    /\ cn_res' = Some(ResIo)
    /\ UNCHANGED <<cn_pc, cn_client_id, cn_reads, cnOthers>>

\* HdfsConnection::shutdown (HaHdfsConnection::shutdown with Some(conn)):
\* the closing group is written, or its write fails; self is consumed.
CnShutdown ==
    /\ cn_pc = "open"
    /\ cn_call_id' = InfiniteSeq_next(cn_call_id)
    /\ \/ /\ cn_wire' = Append(cn_wire, ShutdownGroup(cn_call_id', cn_client_id))
          /\ cn_res' = Some(ResOk)
       \/ /\ cn_wire' = Append(cn_wire, Torn)
          /\ cn_res' = Some(ResIo)
    /\ cn_pc' = "closed"
    /\ UNCHANGED <<cn_client_id, cn_reads, cn_calls, cnOthers>>

\* HaHdfsConnection::shutdown with current = None
CnShutdownNone ==
    /\ cn_pc \in {"none", "refused", "broken"}
    /\ cn_pc' = "gone"
    /\ cn_res' = Some(ResOk)
    /\ UNCHANGED <<cn_client_id, cn_call_id, cn_wire, cn_reads, cn_calls, cnOthers>>

ConnNext == CnNew \/ CnCall \/ CnCallTorn \/ CnShutdown \/ CnShutdownNone

\* ------------------------------------------------ fs.rs: Hdfs::get_status
StatFields ==
    {"capacity", "used", "remaining", "under_replicated", "corrupt_blocks",
     "missing_blocks", "missing_repl_one_blocks", "blocks_in_future",
     "pending_deletion_blocks"}

\* GetFsStatsResponseProto
FsStats == [StatFields -> 0..MaxStat]

\* Hdfs::get_status on the answer of getFsStats: the FsStatus literal, field
\* by field, or HdfsError::op of the RpcError.
get_status(reply) ==
    IF IsSome(reply)
    THEN LET stats == Unwrap(reply)
         IN  [ok |-> TRUE, kind |-> "none", source |-> "none",
              val |-> Some([capacity |-> stats.capacity,
                            used |-> stats.used,
                            remaining |-> stats.used,
                            under_replicated |-> stats.under_replicated,
                            corrupt_blocks |-> stats.corrupt_blocks,
                            missing_blocks |-> stats.missing_blocks,
                            missing_repl_one_blocks |-> stats.missing_repl_one_blocks,
                            blocks_in_future |-> stats.blocks_in_future,
                            pending_deletion_blocks |-> stats.pending_deletion_blocks])]
    ELSE [ok |-> FALSE, kind |-> "Op", source |-> "Rpc", val |-> None]

\* Before the call; the name node's answer is any response or an error.
StatusStart(reply) == st_reply = reply /\ st_res = None

StatusInit == \E reply \in {None} \cup {Some(stats) : stats \in FsStats} : StatusStart(reply)

\* get_status where getFsStats is answered
StGetStatus ==
    /\ st_res = None /\ IsSome(st_reply)
    /\ st_res' = Some(get_status(st_reply))
    /\ UNCHANGED <<st_reply, stOthers>>

\* get_status where getFsStats returns an RpcError
StGetStatusErr ==
    /\ st_res = None /\ ~IsSome(st_reply)
    /\ st_res' = Some(get_status(st_reply))
    /\ UNCHANGED <<st_reply, stOthers>>

StatusNext == StGetStatus \/ StGetStatusErr

\* ------------------------------------------------ specifications
frIdle == FrameInit
lsIdle == LsStart(0, 1)

fdIdle == FeedStart(<<>>)
fsIdle == FsInit
caIdle == CacheInit
paIdle == PathStart(Ref(None, None, FALSE, <<"">>), FALSE)
pjIdle == pj_more = Ref(None, None, FALSE, <<"">>) /\ pj_res = None
sqIdle == sq_val = InfiniteSeq_new /\ sq_sent = <<>> /\ sq_res = <<>> /\ sq_state = "open"
grIdle ==
    /\ gr_srv = [c \in 0..MaxName |-> [partial |-> <<>>, remaining |-> 0]]
    /\ gr_gs = GroupNew
    /\ gr_cursor = None /\ gr_last = <<>> /\ gr_tick = FALSE
    /\ gr_pc = "run"
cnIdle == ConnInit
stIdle == StatusStart(None)
extIdle == fdIdle /\ fsIdle /\ caIdle /\ paIdle /\ pjIdle /\ sqIdle /\ grIdle /\ cnIdle /\ stIdle

Init == HaInit /\ frIdle /\ lsIdle /\ extIdle
Next ==
    \/ CallStart
    \/ EnsureConnection
    \/ TryConnectNext
    \/ InitConnection
    \/ TryConnectExhausted
    \/ Forward
    \/ Fail
Spec == Init /\ [][Next]_vars

InitFrame == haIdle /\ FrameInit /\ lsIdle /\ extIdle
SpecFrame == InitFrame /\ [][FrameNext]_vars

InitLs == haIdle /\ frIdle /\ LsInit /\ extIdle
SpecLs == InitLs /\ [][LsNext]_vars

InitFeed == haIdle /\ frIdle /\ lsIdle /\ FeedInit /\ fsIdle /\ caIdle /\ paIdle /\ pjIdle /\ sqIdle /\ grIdle /\ cnIdle /\ stIdle
SpecFeed == InitFeed /\ [][FdNext]_vars

InitFs == haIdle /\ frIdle /\ lsIdle /\ fdIdle /\ FsInit /\ caIdle /\ paIdle /\ pjIdle /\ sqIdle /\ grIdle /\ cnIdle /\ stIdle
SpecFs == InitFs /\ [][FsNext]_vars

InitCache == haIdle /\ frIdle /\ lsIdle /\ fdIdle /\ fsIdle /\ CacheInit /\ paIdle /\ pjIdle /\ sqIdle /\ grIdle /\ cnIdle /\ stIdle
SpecCache == InitCache /\ [][CaNext]_vars

InitPath == haIdle /\ frIdle /\ lsIdle /\ fdIdle /\ fsIdle /\ caIdle /\ PathInit /\ pjIdle /\ sqIdle /\ grIdle /\ cnIdle /\ stIdle
SpecPath == InitPath /\ [][PaNext]_vars

InitJoin == haIdle /\ frIdle /\ lsIdle /\ fdIdle /\ fsIdle /\ caIdle /\ JoinInit /\ sqIdle /\ grIdle /\ cnIdle /\ stIdle
SpecJoin == InitJoin /\ [][JoinNext]_vars

InitSeq == haIdle /\ frIdle /\ lsIdle /\ fdIdle /\ fsIdle /\ caIdle /\ paIdle /\ pjIdle /\ SeqInit /\ grIdle /\ cnIdle /\ stIdle
SpecSeq == InitSeq /\ [][SeqNext]_vars

InitGroup == haIdle /\ frIdle /\ lsIdle /\ fdIdle /\ fsIdle /\ caIdle /\ paIdle /\ pjIdle /\ sqIdle /\ GroupInit /\ cnIdle /\ stIdle
SpecGroup == InitGroup /\ [][GroupNextStep]_vars
InitConn == haIdle /\ frIdle /\ lsIdle /\ fdIdle /\ fsIdle /\ caIdle /\ paIdle /\ pjIdle /\ sqIdle /\ grIdle /\ ConnInit /\ stIdle
SpecConn == InitConn /\ [][ConnNext]_vars

InitStatus == haIdle /\ frIdle /\ lsIdle /\ fdIdle /\ fsIdle /\ caIdle /\ paIdle /\ pjIdle /\ sqIdle /\ grIdle /\ cnIdle /\ StatusInit
SpecStatus == InitStatus /\ [][StatusNext]_vars

\* The consumer polls the iterator until it gives None or an error, and the
\* name node goes on answering: a call that can be answered is not failed
\* forever.
SpecGroupLive ==
    SpecGroup /\ WF_vars(GrPoll) /\ WF_vars(GrPollCapped) /\ WF_vars(GrEnd)


\* ------------------------------------------------ properties: HA manager
\* A call has ended: it returned to the caller, or the process panicked.
CallReturned == ha_pc = "idle" /\ calls_made > 0 /\ IsSome(result)
CallEnded == CallReturned \/ ha_pc = "panicked"

IsStandbyRes(res) == res.kind = "ErrorResponse" /\ res.exception = StandbyException
IsStandbyAppRes(res) == IsStandbyRes(res) /\ res.detail = "ERROR_APPLICATION"

\* A non-fatal ERROR whose class is not the standby exception.
IsPlainError(res) ==
    /\ res.kind \in {"ErrorResponse", "KnownError"}
    /\ res.exception # StandbyException

\* Every connection attempt of the call in progress was accepted and its
\* handshake written.
AllAccepted == refused = 0 /\ handshakes = tried

\* C1: with N >= 1 endpoints that all accept and all answer with
\* StandbyException (here with the detail code ERROR_APPLICATION), a call
\* started with no live connection ends by returning the last standby error
\* after exactly N attempts, and does not abort the process.
C1_Claim ==
    (/\ CallEnded
     /\ connection_num >= 1
     /\ ~started_live
     /\ AllAccepted
     /\ Len(resps) >= 1
     /\ \A i \in 1..Len(resps) : IsStandbyAppRes(resps[i]))
    => (/\ ha_pc = "idle"
        /\ sent = connection_num
        /\ result = Some(Last(resps)))

\* C2: if the first k < N endpoints tried in one call answer with
\* StandbyException and the next answers SUCCESS, the call returns the
\* success, the request was sent k+1 times and the live connection is the one
\* to the endpoint that answered SUCCESS.
C2_Thm ==
    (/\ CallEnded
     /\ Len(resps) >= 1
     /\ Len(resps) - 1 < connection_num
     /\ \A i \in 1..(Len(resps) - 1) : IsStandbyRes(resps[i])
     /\ Last(resps) = ResOk)
    => (/\ ha_pc = "idle"
        /\ result = Some(ResOk)
        /\ sent = Len(resps)
        /\ closes = Len(resps) - 1
        /\ IsSome(current)
        /\ Unwrap(current).tid = Unwrap(hdr).tid
        /\ Unwrap(current).ep = Unwrap(hdr).ep
        /\ open = {Unwrap(hdr).tid})

C2_Witness ==
    /\ CallReturned
    /\ connection_num = 2
    /\ Len(resps) = 2
    /\ IsStandbyRes(resps[1])
    /\ result = Some(ResOk)
    /\ Unwrap(current).ep = 1

\* C3: after a FATAL response the fatal error is returned and the manager no
\* longer holds the connection.
C3_Claim ==
    (/\ CallReturned
     /\ Len(resps) >= 1
     /\ Last(resps).kind = "FatalResponse")
    => (result = Some(Last(resps)) /\ current = None)

\* C4: after a call failed with an I/O error on the stream or a decoding
\* error, the connection it was made on is closed and discarded.
C4_Claim ==
    (/\ CallReturned
     /\ Len(resps) >= 1
     /\ Last(resps).kind \in {"Io", "Protobuf"})
    => (current = None /\ open = {})

\* C5: after a call returned a non-fatal, non-standby ERROR the manager keeps
\* the same connection, and the next call is written on the same transport with
\* no new handshake, the same client-id and the failed call's call-id plus one.
C5_Kept ==
    (CallReturned /\ IsPlainError(Unwrap(result)))
    => (/\ IsSome(current)
        /\ Unwrap(current).tid = Unwrap(hdr).tid
        /\ Unwrap(current).call_id = Unwrap(hdr).call_id
        /\ Unwrap(current).client_id = Unwrap(hdr).client_id
        /\ open = {Unwrap(hdr).tid})

C5_NextCall ==
    (/\ ha_pc \in {"loop", "forward", "connecting", "handshake"}
     /\ sent = 0
     /\ IsSome(prev_result)
     /\ IsPlainError(Unwrap(prev_result))
     /\ hdr' # hdr)
    => (/\ Unwrap(hdr').tid = Unwrap(hdr).tid
        /\ Unwrap(hdr').call_id = Unwrap(hdr).call_id + 1
        /\ Unwrap(hdr').client_id = Unwrap(hdr).client_id
        /\ handshakes' = 0
        /\ tried' = 0)

C5_Thm == [](C5_Kept) /\ [][C5_NextCall]_vars

C5_Witness ==
    /\ sent = 1
    /\ IsSome(prev_result)
    /\ IsPlainError(Unwrap(prev_result))
    /\ Unwrap(hdr).nth >= 1
    /\ Unwrap(hdr).call_id >= 1

\* C6: a call whose first response is SUCCESS or an error that is not the
\* standby exception sends the request once and returns that result; the
\* manager does not close the connection or connect to another endpoint.
C6_Thm ==
    (/\ CallEnded
     /\ Len(resps) >= 1
     /\ ~IsStandbyRes(resps[1]))
    => (/\ ha_pc = "idle"
        /\ sent = 1
        /\ result = Some(resps[1])
        /\ closes = 0
        /\ IsSome(current)
        /\ Unwrap(current).tid = Unwrap(hdr).tid)

C6_Witness ==
    /\ CallReturned
    /\ sent = 1
    /\ Unwrap(result).kind = "FatalResponse"
    /\ started_live

\* C7: at most one transport opened by the manager is open in every state;
\* in a failover the old connection has been sent its close message and
\* dropped before the next one is opened.
C7_Thm ==
    /\ Cardinality(open) <= 1
    /\ IsSome(pending) => current = None
    /\ (ha_pc \in {"loop", "connecting"} /\ sent > 0) => (open = {} /\ closes = sent)
    /\ IsSome(current) => open = {Unwrap(current).tid}

C7_Witness ==
    /\ ha_pc = "handshake"
    /\ closes >= 1
    /\ started_live
    /\ Cardinality(open) = 1

\* C8: within one connection the call-ids of successive call request headers
\* are 0, 1, 2, ...: the n-th header built on a transport carries call-id n-1,
\* whatever the results of the calls before it.
C8_Thm ==
    /\ IsSome(hdr) => Unwrap(hdr).call_id = Unwrap(hdr).nth
    /\ IsSome(current) =>
          Unwrap(current).call_id =
              (IF IsSome(hdr) /\ Unwrap(hdr).tid = Unwrap(current).tid
               THEN Unwrap(hdr).nth ELSE 0 - 1)

C8_Witness ==
    /\ IsSome(hdr)
    /\ Unwrap(hdr).nth = 2
    /\ Unwrap(hdr).call_id = 2
    /\ IsSome(prev_result)
    /\ Unwrap(prev_result).kind \in {"Io", "ErrorResponse"}

\* ------------------------------------------------ properties: framing
\* C9: for every response group received, the call consumes exactly 4 + L
\* bytes of the stream, so that the next read starts at the next group's
\* prefix.
C9_Claim ==
    /\ fr_len > 0 => fr_read = fr_len
    /\ fr_pos = fr_next

\* ------------------------------------------------ properties: listing
IsPrefix(a, b) == Len(a) <= Len(b) /\ \A i \in 1..Len(a) : a[i] = b[i]

\* C10: for a directory that does not change and a server that answers every
\* getListing call, the entries yielded are the directory's entries in order,
\* each exactly once, for every directory size and page size.
C10_Thm ==
    ~ls_err =>
        /\ IsPrefix(yielded, Range(1, dir_n))
        /\ ls_pc = "done" => yielded = Range(1, dir_n)
        /\ Len(cursors) <= dir_n + 1

C10_Witness ==
    /\ ls_pc = "done"
    /\ ~ls_err
    /\ dir_n = 4
    /\ page_k = 3
    /\ yielded = <<1, 2, 3, 4>>
    /\ cursors = <<0, 3>>

\* The number of items (entries, or the error) that calls of next() yield
\* from the state (it, gs) until the first None, when the failAt-th getListing
\* call from here on fails (0: none fails).
RECURSIVE Drain(_, _, _, _)
Drain(it, gs, failAt, fuel) ==
    LET r == LsIterator_next(it, gs, failAt = 1)
        called == IsSome(r.cursor)
    IN  IF fuel = 0 \/ r.out = <<>>
        THEN 0
        ELSE 1 + Drain(r.it, r.gs,
                       IF called /\ failAt > 0 THEN failAt - 1 ELSE failAt,
                       fuel - 1)

\* C11: in every state of the listing iterator over a directory that does not
\* change, the upper bound of size_hint() is at least the number of items the
\* later next() calls yield, whether or not a later getListing call fails.
C11_Thm ==
    ls_pc # "new" =>
        \A failAt \in 0..(dir_n + 1) :
            size_hint(LsIt)[2] >= Drain(LsIt, LsGs, failAt, dir_n + 2)

C11_Witness ==
    /\ ls_pc = "iter"
    /\ dir_n = 4 /\ page_k = 3
    /\ yielded = <<1>>
    /\ Drain(LsIt, LsGs, 0, dir_n + 2) = 3
    /\ Drain(LsIt, LsGs, 1, dir_n + 2) = 3
    /\ size_hint(LsIt)[2] >= 3

\* C12: for a directory of n entries that does not change and a server that
\* answers every call, size_hint() is (max(n-j-1, 0), Some(n-j)) after j
\* entries were yielded (j = 0 right after the first getListing call), hence
\* (0, Some(0)) once all n were yielded.
C12_Claim ==
    (ls_pc # "new" /\ ~ls_err) =>
        LET left == dir_n - Len(yielded)
        IN  size_hint(LsIt) = <<IF left = 0 THEN 0 ELSE left - 1, left>>

\* ------------------------------------------------ properties: LsIterator
\* over given groups
RECURSIVE FirstErr(_)
FirstErr(groups) ==
    IF Len(groups) = 0 THEN 0
    ELSE IF ~Head(groups).ok THEN 1
    ELSE IF FirstErr(Tail(groups)) = 0 THEN 0 ELSE 1 + FirstErr(Tail(groups))

RECURSIVE Flatten(_)
Flatten(groups) ==
    IF Len(groups) = 0 THEN <<>> ELSE Head(groups).data \o Flatten(Tail(groups))

\* What is to be yielded for groups that hold an error: the items of the
\* batches before the first error, then the error.
ExpectedOut(groups) ==
    Flatten(SubSeq(groups, 1, FirstErr(groups) - 1)) \o <<0 - 1>>

ErrYielded == Len(fd_out) > 0 /\ Last(fd_out) = 0 - 1

FeedErrState ==
    /\ IsPrefix(fd_out, ExpectedOut(fd_groups))
    /\ ~fd_it.gi => fd_out = ExpectedOut(fd_groups)
    /\ ErrYielded => size_hint(fd_it) = <<0, 0>>

FeedErrStep ==
    ErrYielded => (fd_out' = fd_out /\ fd_polls' = fd_polls /\ fd_feed' = fd_feed)

\* Every batch before the first error announces more to come.
MoreBeforeErr(groups) ==
    \A i \in 1..(FirstErr(groups) - 1) : groups[i].expected > 0

\* C13 as stated: for any sequence of groups that holds an error, the items
\* yielded are those of the batches before the first error, in order, then
\* the error once; after the error every next() gives None, the group
\* iterator is not polled again and size_hint() is (0, Some(0)).
C13_Claim ==
    /\ [](FirstErr(fd_groups) > 0 => FeedErrState)
    /\ [][FirstErr(fd_groups) > 0 => FeedErrStep]_vars

\* C13 amended: the same, for sequences of groups in which every batch before
\* the first error carries a remaining count greater than zero (a batch with
\* count 0 is the last one LsIterator reads).
C13_Thm ==
    /\ []((FirstErr(fd_groups) > 0 /\ MoreBeforeErr(fd_groups)) => FeedErrState)
    /\ [][(FirstErr(fd_groups) > 0 /\ MoreBeforeErr(fd_groups)) => FeedErrStep]_vars

C13_Witness ==
    /\ FirstErr(fd_groups) = 2
    /\ Len(fd_groups) = 3
    /\ fd_groups[1].expected = 1
    /\ fd_groups[3].ok
    /\ Len(fd_groups[3].data) = 2
    /\ fd_out = <<1, 2, 0 - 1>>
    /\ fd_pc = "done"
    /\ fd_polls = 2
    /\ Len(fd_feed) = 1

\* ------------------------------------------------ properties: Hdfs facade
\* How many times the operation issued the RPC of that name.
Issued(name) == Cardinality({i \in 1..Len(fs_rpcs) : fs_rpcs[i] = name})

InfoExists == IsSome(fs_info) /\ Unwrap(fs_info) \in {"IS_FILE", "IS_DIR", "IS_SYMLINK"}
InfoIs(v) == IsSome(fs_info) /\ Unwrap(fs_info) = v

\* C14: mkdirs(p, create_parent = false) on a path for which the getFileInfo
\* pre-check returns a status fails with cause FileExists and issues no mkdirs
\* RPC; when the pre-check reports not-found, the mkdirs RPC is issued exactly
\* once.
C14_Thm ==
    (fs_op = "mkdirs" /\ ~fs_args.flag) =>
        /\ InfoExists =>
              (~fs_res.ok /\ fs_res.source = "FileExists" /\ Issued("mkdirs") = 0)
        /\ InfoIs("absent") => Issued("mkdirs") = 1

C14_Witness ==
    /\ fs_op = "mkdirs" /\ ~fs_args.flag
    /\ InfoIs("IS_FILE")
    /\ fs_res = HdfsErr("Src", "FileExists")
    /\ fs_rpcs = <<"getFileInfo">>

\* C15: delete(p, recursive = false) fails with cause IsDir on a directory
\* and with cause NotFound on a path that does not exist, issuing no delete
\* RPC in either case; with recursive = true there is no pre-check and the
\* delete RPC is issued.
C15_Thm ==
    fs_op = "delete" =>
        /\ (~fs_args.flag /\ InfoIs("IS_DIR")) =>
              (~fs_res.ok /\ fs_res.source = "IsDir" /\ Issued("delete") = 0)
        /\ (~fs_args.flag /\ InfoIs("absent")) =>
              (~fs_res.ok /\ fs_res.source = "NotFound" /\ Issued("delete") = 0)
        /\ (fs_args.flag /\ resolve_path(fs_args.src).ok) =>
              (fs_info = None /\ fs_rpcs = <<"delete">>)

C15_Witness ==
    /\ fs_op = "delete" /\ ~fs_args.flag
    /\ InfoIs("IS_DIR")
    /\ fs_res = HdfsErr("Src", "IsDir")
    /\ fs_rpcs = <<"getFileInfo">>

\* C16: list_status(p) fails with kind Src and cause NotFound when p does not
\* exist and with kind Src and cause NotDir when p exists and is not a
\* directory, issuing no getListing RPC; a listing iterator is returned only
\* when p is a directory.
C16_Thm ==
    fs_op = "list_status" =>
        /\ InfoIs("absent") =>
              (fs_res = HdfsErr("Src", "NotFound") /\ Issued("getListing") = 0)
        /\ (InfoExists /\ ~InfoIs("IS_DIR")) =>
              (fs_res = HdfsErr("Src", "NotDir") /\ Issued("getListing") = 0)
        /\ fs_res.ok => (InfoIs("IS_DIR") /\ fs_res.val = "iterator")
        /\ InfoIs("IS_DIR") => fs_res.ok

C16_Witness ==
    /\ fs_op = "list_status"
    /\ InfoIs("IS_FILE")
    /\ fs_res = HdfsErr("Src", "NotDir")
    /\ fs_rpcs = <<"getFileInfo">>

\* C17: rename(src, dst) fails with kind Src when resolving src fails, with
\* kind Dst when resolving dst fails and with kind Op when the rename RPC
\* fails; no rename RPC is issued when resolving either path fails.
C17_Thm ==
    fs_op = "rename" =>
        /\ ~resolve_path(fs_args.src).ok =>
              (~fs_res.ok /\ fs_res.kind = "Src" /\ fs_rpcs = <<>>)
        /\ (resolve_path(fs_args.src).ok /\ ~resolve_path(fs_args.dst).ok) =>
              (~fs_res.ok /\ fs_res.kind = "Dst" /\ fs_rpcs = <<>>)
        /\ (resolve_path(fs_args.src).ok /\ resolve_path(fs_args.dst).ok) =>
              (fs_rpcs = <<"rename">> /\ (~fs_res.ok => fs_res = HdfsErr("Op", "Rpc")))

C17_Witness ==
    /\ fs_op = "rename"
    /\ fs_args.src = "a" /\ fs_args.dst = "bad"
    /\ fs_res = HdfsErr("Dst", "Path")
    /\ fs_rpcs = <<>>

\* ------------------------------------------------ properties: Cached<T>
\* C18: get_fn returns a stored value whose deadline is later than now without
\* invoking the refresh function; otherwise it invokes the refresh function
\* exactly once and, when that succeeds, stores the result with deadline =
\* now + expire_in (now read when the result is stored) and returns it.
C18_Thm ==
    IsSome(ca_call) =>
        LET c == Unwrap(ca_call)
        IN  /\ (IsSome(c.pre) /\ Unwrap(c.pre).deadline > c.t1) =>
                  /\ c.invoked = 0
                  /\ c.ret = Some(Unwrap(c.pre).val)
                  /\ ca_value = c.pre
            /\ ~(IsSome(c.pre) /\ Unwrap(c.pre).deadline > c.t1) =>
                  /\ c.invoked = 1
                  /\ c.t1 <= c.t2
                  /\ c.ok =>
                        /\ IsSome(c.ret)
                        /\ ca_value = Some([val |-> Unwrap(c.ret),
                                            deadline |-> c.t2 + c.expire_in])
                        /\ Unwrap(c.ret) = ca_refreshes

C18_Witness ==
    /\ IsSome(ca_call)
    /\ IsSome(Unwrap(ca_call).pre)
    /\ Unwrap(Unwrap(ca_call).pre).deadline <= Unwrap(ca_call).t1
    /\ Unwrap(ca_call).invoked = 1
    /\ Unwrap(ca_call).ok
    /\ Unwrap(ca_call).expire_in = 2
    /\ ca_refreshes = 2
    /\ ca_value = Some([val |-> 2, deadline |-> Unwrap(ca_call).t2 + 2])

\* ------------------------------------------------ properties: UriResolver
\* C19: resolve is idempotent: resolving the result of resolve gives the same
\* scheme, authority and path, for relative, absolute-path and full-URI inputs.
C19_Thm ==
    IsSome(pa_res2) => pa_res2 = pa_res1

C19_Witness ==
    /\ IsSome(pa_res2)
    /\ is_relative_path_reference(Unwrap(pa_path))
    /\ pa_raw.segs = <<"..", "test">>
    /\ Unwrap(pa_res2) = [default_uri EXCEPT !.segs = <<"user", "test">>]
    /\ Unwrap(pa_res1) # Unwrap(pa_path)

\* The least index of a segment of segs equal to seg, 0 if there is none.
IndexOf(segs, seg) ==
    IF \E i \in 1..Len(segs) : segs[i] = seg
    THEN CHOOSE i \in 1..Len(segs) : segs[i] = seg /\ \A j \in 1..(i - 1) : segs[j] # seg
    ELSE 0

Without(segs, lo, hi) == SubSeq(segs, 1, lo - 1) \o SubSeq(segs, hi + 1, Len(segs))

RECURSIVE Canon(_)
\* The path below '/' with '.' segments removed and each '..' removing the
\* segment before it, or nothing when it is the first.
Canon(segs) ==
    IF IndexOf(segs, ".") # 0
    THEN Canon(Without(segs, IndexOf(segs, "."), IndexOf(segs, ".")))
    ELSE IF IndexOf(segs, "..") # 0
    THEN LET i == IndexOf(segs, "..")
         IN  Canon(Without(segs, IF i > 1 THEN i - 1 ELSE i, i))
    ELSE IF Len(segs) = 0 THEN <<"">> ELSE segs

\* path is Canon(default path, then s); when s ends in a dot segment an empty
\* last segment (a trailing slash) may follow.
IsCanonOf(path, s) ==
    LET want == Canon(default_uri.segs \o s)
    IN  \/ path = want
        \/ /\ Len(s) > 0 /\ Last(s) \in {".", ".."}
           /\ path = Append(want, "")

NoEmptySegment(segs) == \A i \in 1..Len(segs) : segs[i] # ""

C21_Thm ==
    IsSome(pa_res1) =>
        LET uri == Unwrap(pa_path)
            res == Unwrap(pa_res1)
            def == Unwrap(default_uri.auth)
        IN  /\ (~IsSome(uri.scheme) /\ ~IsSome(uri.auth) /\ uri.absolute) =>
                  res = Ref(default_uri.scheme, default_uri.auth, TRUE, uri.segs)
            /\ IsSome(uri.auth) =>
                  LET in == Unwrap(uri.auth)
                      out == Unwrap(res.auth)
                  IN  /\ IsSome(res.auth)
                      /\ out.user = (IF in.user = None THEN def.user ELSE in.user)
                      /\ out.password = in.password
                      /\ out.host = (IF in.host = "" THEN def.host ELSE in.host)
                      /\ out.port = (IF in.host = "" THEN def.port ELSE in.port)
                      /\ res.absolute /\ res.segs = uri.segs
            /\ (pa_raw = Ref(None, Some(Auth(None, None, "host", None)), TRUE, <<"test">>)) =>
                  res = Ref(Some("hdfs"), Some(Auth(Some("myself"), None, "host", None)),
                            TRUE, <<"test">>)
            /\ (pa_raw = Ref(None, Some(Auth(None, None, "", None)), TRUE, <<"test">>)) =>
                  res = Ref(Some("hdfs"), Some(Auth(Some("myself"), None, "myhost", None)),
                            TRUE, <<"test">>)

C21_Witness ==
    /\ IsSome(pa_res1)
    /\ pa_raw = Ref(None, Some(Auth(None, Some("pass"), "", Some("8020"))), TRUE, <<"test">>)
    /\ Unwrap(pa_res1) =
          Ref(Some("hdfs"), Some(Auth(Some("myself"), Some("pass"), "myhost", None)),
              TRUE, <<"test">>)

\* ------------------------------------------------ properties: Path::join
\* The leading ".." segments of segs removed.
RECURSIVE StripDotDot(_)
StripDotDot(segs) ==
    IF Len(segs) > 0 /\ Head(segs) = ".." THEN StripDotDot(Tail(segs)) ELSE segs

AtLeastOne(segs) == IF Len(segs) = 0 THEN <<"">> ELSE segs

\* C22: join(base, more) keeps base's scheme and authority; its path is made
\* of base's segments followed by more's segments, a leading '/' of more
\* ignored and empty segments dropped, with '.' removed and each '..'
\* cancelling the preceding segment that is not '..'; join(base, "") is base.
\* more's segments are read either as written or as Path::new keeps them.  A
\* '..' with nothing to cancel may stay or, on an absolute path, go; when
\* more ends in '..' an empty last segment is allowed.
C22_Claim ==
    IsSome(pj_res) =>
        LET base == Unwrap(pa_path)
            res == Unwrap(pj_res)
            more_uri == Path_new(pj_more, pa_trail)
            folded == {DotFold(NonEmpty(base.segs \o m), <<>>, TRUE) :
                          m \in {pj_more.segs, more_uri.segs}}
            wants == {AtLeastOne(w) : w \in folded} \cup
                     (IF base.absolute
                      THEN {AtLeastOne(StripDotDot(w)) : w \in folded} ELSE {})
        IN  /\ res.scheme = base.scheme /\ res.auth = base.auth
            /\ res.absolute = base.absolute
            /\ IsEmptyStr(pj_more) => res = base
            /\ ~IsEmptyStr(pj_more) =>
                  \/ res.segs \in wants
                  \/ /\ Last(more_uri.segs) = ".."
                     /\ \E w \in wants : res.segs = Append(w, "")

\* ------------------------------------------------ properties: call ids
\* C23: for every number of calls made on one connection, also past 2^31 - 1
\* calls, the call id written in a call or shutdown header is not negative
\* and is neither of the reserved values -3 and -1.
C23_Claim ==
    \A i \in 1..Len(sq_sent) :
        /\ sq_sent[i].callId >= 0
        /\ sq_sent[i].callId \notin {0 - 3, 0 - 1}

\* ------------------------------------------------ properties: LsGroupIterator
\* C24: the group iterator ends after finitely many calls also when an answer
\* has an empty partial list together with remaining_entries > 0, for a name
\* node that answers each cursor always the same way.
C24_Claim == <>(gr_pc # "run")

\* C25: after an answer with a non-empty partial list the next getListing
\* starts after that list's last entry; after an answer with an empty partial
\* list it starts after the same cursor as the call before.
C25_Claim ==
    [][(IsSome(gr_cursor) /\ gr_tick' # gr_tick) =>
            gr_cursor' = IF Len(gr_last) = 0 THEN gr_cursor
                         ELSE Some(Last(gr_last))]_vars

\* ------------------------------------------------ properties: failover, status
\* C26: an ERROR response whose exception class is the standby exception makes
\* the call discard the connection and go on to the next endpoint, whatever
\* error-detail code the response carries.
C26_Claim ==
    [][(ha_pc = "forward" /\ resps' # resps /\ IsStandbyRes(Last(resps')))
        => (ha_pc' = "fail" /\ result' = result)]_vars

\* The recognition map as the claim has it.
ClaimedClassMap == {SnapshotExceptionDots}

\* C27: an ERROR whose class is org.apache.hadoop.hdfs.protocol.SnapshotException
\* gives the known-error variant (kind Snapshot); an ERROR whose class is not
\* in the recognition map gives the plain error variant with the raw class
\* name; a FATAL gives the fatal variant whatever its class; only SUCCESS
\* reads and returns the response message.
C27_Claim ==
    (IsSome(fr_res) /\ IsSome(fr_hdr)) =>
        LET h == Unwrap(fr_hdr)
            res == Unwrap(fr_res)
        IN  /\ (h.status = "ERROR" /\ h.exception \in ClaimedClassMap)
                    => res = Res("KnownError", h.exception, h.detail)
            /\ (h.status = "ERROR" /\ h.exception \notin ClaimedClassMap \cup ERROR_CLASS_MAP)
                    => res = Res("ErrorResponse", h.exception, h.detail)
            /\ h.status = "FATAL" => res = Res("FatalResponse", h.exception, h.detail)
            /\ res = ResOk => h.status = "SUCCESS"
            /\ h.status = "SUCCESS" => res \in {ResOk, ResProtobuf}

\* ------------------------------------------------ properties: connection attempts
\* C28: if no connection is live and every one of the N >= 1 endpoints fails
\* to connect, the call makes exactly N connection attempts, sends no request,
\* leaves the manager without a live connection and returns the connection
\* error of the last attempt.
C28_Thm ==
    (/\ CallEnded
     /\ connection_num >= 1
     /\ ~started_live
     /\ handshakes = 0)
    => (/\ ha_pc = "idle"
        /\ tried = connection_num
        /\ sent = 0
        /\ current = None /\ open = {}
        /\ result = last_err
        /\ Unwrap(result) \in {ResConnector, ResIo}
        /\ refused = tried => result = Some(ResConnector)
        /\ refused = 0 => result = Some(ResIo))

C28_Witness ==
    /\ CallReturned
    /\ connection_num = 2
    /\ ~started_live
    /\ tried = 2 /\ refused = 1 /\ handshakes = 0
    /\ result = Some(ResIo)

\* C29: the j-th connection attempt made by one manager over its whole life
\* targets endpoint (j-1) mod N, whatever the earlier attempts and calls gave.
C29_Thm ==
    IsSome(target) =>
        Unwrap(target) = (attempt_mod - 1) % connection_num

C29_Witness ==
    /\ connection_num = 2
    /\ calls_made = 2
    /\ tried = 1
    /\ attempt_mod = 0
    /\ target = Some(1)
    /\ IsSome(prev_result) /\ Unwrap(prev_result) = ResOk

\* C30: within one call the request is forwarded at most N times, also when
\* the call starts with a connection that is live from an earlier call.
C30_Claim == sent <= connection_num

\* ------------------------------------------------ properties: one connection's writes
\* The connection was built: new returned Ok.
ConnBuilt == cn_pc \in {"open", "closed"}

IsRequestGroup(item) ==
    /\ item.kind = "group"
    /\ item.records[1].op = "RPC_FINAL_PACKET"
    /\ item.records[1].callId # 0 - 3

CountItems(wire, P(_)) == Cardinality({i \in 1..Len(wire) : P(wire[i])})

\* C31: on the transport of every connection that was built, exactly one
\* handshake is written ('hrpc', 9, 80, 0, then one group of two records: a
\* header with call-id -3 and retry-count -1, and the connection context); it
\* comes before any call request, no reply is read for it, and it takes no
\* call-id: the first call has call-id 0.
C31_Thm ==
    ConnBuilt =>
        /\ Len(cn_wire) >= 2
        /\ cn_wire[1] = [kind |-> "preamble", magic |-> "hrpc", version |-> 9,
                         service |-> 80, auth |-> 0, records |-> <<>>]
        /\ cn_wire[2].kind = "group"
        /\ Len(cn_wire[2].records) = 2
        /\ cn_wire[2].records[1].type = "RpcRequestHeaderProto"
        /\ cn_wire[2].records[1].callId = 0 - 3
        /\ cn_wire[2].records[1].retryCount = 0 - 1
        /\ cn_wire[2].records[2].type = "IpcConnectionContextProto"
        /\ \A i \in 3..Len(cn_wire) :
              /\ cn_wire[i].kind # "preamble"
              /\ \A k \in 1..Len(cn_wire[i].records) :
                    /\ cn_wire[i].records[k].callId # 0 - 3
                    /\ cn_wire[i].records[k].type # "IpcConnectionContextProto"
        /\ cn_reads = CountItems(cn_wire, IsRequestGroup)
        /\ cn_calls = 0 => cn_reads = 0
        /\ (Len(cn_wire) >= 3 /\ IsRequestGroup(cn_wire[3]))
              => cn_wire[3].records[1].callId = 0

C31_Witness ==
    /\ cn_pc = "open"
    /\ Len(cn_wire) = 4
    /\ IsRequestGroup(cn_wire[3]) /\ cn_wire[3].records[1].callId = 0
    /\ IsRequestGroup(cn_wire[4]) /\ cn_wire[4].records[1].callId = 1
    /\ cn_reads = 2

IsCloseGroup(item) ==
    /\ item.kind = "group"
    /\ item.records[1].op = "RPC_CLOSE_CONNECTION"

\* After a shutdown that returned Ok.
C32_Closed ==
    (cn_pc = "closed" /\ cn_res = Some(ResOk)) =>
        /\ CountItems(cn_wire, IsCloseGroup) = 1
        /\ IsCloseGroup(Last(cn_wire))
        /\ Len(Last(cn_wire).records) = 1
        /\ Last(cn_wire).records[1].type = "RpcRequestHeaderProto"
        /\ Last(cn_wire).records[1].callId = cn_calls
        /\ cn_reads = CountItems(cn_wire, IsRequestGroup)

\* Nothing is read by shutdown, nothing is written once the connection is
\* closed, and the manager's shutdown without a connection writes nothing
\* and returns Ok.
C32_Step ==
    /\ cn_pc' = "closed" => cn_reads' = cn_reads
    /\ cn_pc = "closed" => cn_wire' = cn_wire
    /\ cn_pc' = "gone" => (cn_wire' = cn_wire /\ cn_res' = Some(ResOk))

\* C32: shutdown after n calls writes exactly one group holding a single
\* header with op = close-connection and call-id n, reads nothing, and no
\* request is written on that transport afterwards; the manager's shutdown
\* with no live connection writes nothing and returns Ok.
C32_Thm == [](C32_Closed) /\ [][C32_Step]_vars

C32_Witness ==
    /\ cn_pc = "closed" /\ cn_res = Some(ResOk)
    /\ cn_calls = 2
    /\ Last(cn_wire).records[1].callId = 2
    /\ cn_reads = 2

\* ------------------------------------------------ properties: client ids
\* Two headers written on the same transport carry the same client id.
SameClientId(a, b) ==
    (IsSome(a) /\ IsSome(b) /\ Unwrap(a).tid = Unwrap(b).tid)
        => Unwrap(a).client_id = Unwrap(b).client_id

\* The handshake, call and closing headers agree with each other and with
\* the client id the live connection was built with; the call sent after a
\* failover is the first of its connection.
C33_State ==
    /\ SameClientId(hs_hdr, hdr)
    /\ SameClientId(hdr, cl_hdr)
    /\ SameClientId(hs_hdr, cl_hdr)
    /\ \A h \in {hs_hdr, hdr, cl_hdr} : SameClientId(h, current)
    /\ (closes >= 1 /\ sent = closes + 1) =>
          /\ Unwrap(hdr).call_id = 0
          /\ Unwrap(hs_hdr).tid = Unwrap(hdr).tid
          /\ Unwrap(hdr).client_id = Unwrap(hs_hdr).client_id
          /\ Unwrap(cl_hdr).tid # Unwrap(hdr).tid

\* A later call header on the same transport keeps the client id.
C33_Step == SameClientId(hdr, hdr')

\* C33: every header written on one connection (handshake, each call,
\* shutdown) carries the client id chosen when the connection was built; a
\* call retried after a standby failover is sent on the new connection with
\* that connection's own client id and call-id 0.
C33_Thm == [](C33_State) /\ [][C33_Step]_vars

C33_Witness ==
    /\ connection_num = 2
    /\ started_live
    /\ closes = 1 /\ sent = 2
    /\ Unwrap(cl_hdr).call_id = 2
    /\ Unwrap(hdr).call_id = 0
    /\ Unwrap(hdr).client_id # Unwrap(cl_hdr).client_id
    /\ Unwrap(hs_hdr).tid = Unwrap(hdr).tid

\* ------------------------------------------------ properties: get_status
\* C34: get_status returns an FsStatus in which every field equals the
\* same-named field of the getFsStats response, also when used and remaining
\* differ.
C34_Claim ==
    (IsSome(st_res) /\ IsSome(st_reply)) =>
        /\ Unwrap(st_res).ok
        /\ \A f \in StatFields :
              Unwrap(Unwrap(st_res).val)[f] = Unwrap(st_reply)[f]

\* ------------------------------------------------ properties: no endpoints
\* C35: a call on a manager built with zero endpoints returns an error value
\* to the caller; it does not abort the process.
C35_Claim ==
    connection_num = 0 =>
        /\ ha_pc # "panicked"
        /\ CallReturned => Unwrap(result).kind # "Ok"

\* ------------------------------------------------ properties: fused
\* C36: for every sequence of groups, once next() has returned None every
\* later next() returns None.
C36_Claim == [][fd_pc = "done" => fd_out' = fd_out]_vars

\* ------------------------------------------------ properties: lower size hint
\* C37: in every state of the listing iterator over a directory that does not
\* change, with no errors, the lower bound of size_hint() is at most the
\* number of items the later next() calls yield.
C37_Claim ==
    (ls_pc # "new" /\ ~ls_err) =>
        size_hint(LsIt)[1] <= Drain(LsIt, LsGs, 0, dir_n + 2)

\* ------------------------------------------------ properties: failed refresh
\* The last get_fn invoked the refresh function and it failed.
LastRefreshFailed == IsSome(ca_call) /\ ~Unwrap(ca_call).ok

C38_State ==
    LastRefreshFailed =>
        /\ Unwrap(ca_call).invoked = 1
        /\ Unwrap(ca_call).ret = None
        /\ ca_value = None

\* The get_fn that follows a failed one invokes the refresh function.
C38_Step ==
    (LastRefreshFailed /\ IsSome(ca_call')
        /\ (ca_call' # ca_call \/ ca_refreshes' # ca_refreshes))
        => (ca_refreshes' = ca_refreshes + 1 /\ Unwrap(ca_call').invoked = 1)

\* C38: when the refresh function fails inside get_fn, the error is returned,
\* the cache holds no value afterwards (an expired value is not served in its
\* place), and the next get_fn invokes the refresh function again.
C38_Thm == [](C38_State) /\ [][C38_Step]_vars

C38_Witness ==
    /\ LastRefreshFailed
    /\ IsSome(Unwrap(ca_call).pre)
    /\ Unwrap(Unwrap(ca_call).pre).deadline <= Unwrap(ca_call).t1
    /\ ca_value = None
    /\ ca_refreshes = 3

\* ------------------------------------------------ properties: resolve_path
\* C39: for every path p, the path string of resolve_path(p) equals the path
\* component of resolve(p), on relative, absolute-path and full-URI inputs.
C39_Claim ==
    (IsSome(pa_rp) /\ IsSome(pa_res1))
        => to_path_string(Unwrap(pa_rp)) = to_path_string(Unwrap(pa_res1))

\* The same on inputs other than a scheme followed by a path with no
\* authority in between.
C39_Rest ==
    (IsSome(pa_rp) /\ IsSome(pa_res1)
        /\ ~(IsSome(pa_raw.scheme) /\ ~IsSome(pa_raw.auth) /\ ~pa_raw.absolute))
        => to_path_string(Unwrap(pa_rp)) = to_path_string(Unwrap(pa_res1))

\* ------------------------------------------------ properties: Cached::get
\* C40: get returns the stored value exactly when it is still fresh (now is
\* before its deadline), the freshness rule of check_expiration and get_fn,
\* and None when the value is expired or absent.
C40_Claim ==
    IsSome(ca_get) =>
        LET g == Unwrap(ca_get)
        IN  g.ret = IF IsFresh(g.pre, g.now) THEN Some(Unwrap(g.pre).val) ELSE None

=============================================================================
